---- MODULE Spec2Model ----
(***************************************************************************)
(* Trading engine of the PolyJacket prediction market (src/main.py,        *)
(* src/database.py): LMSR pricing, the cost-to-shares bisection solver,    *)
(* the market lifecycle pass, the position ledger and the portfolio view;  *)
(* and the Elo rating engine (src/elo_ratings.py) that rates the teams.    *)
(*                                                                         *)
(* Specifications.  Spec and FairSpec are the server with its clients;     *)
(* SeedSpec is the lifecycle pass creating markets for teams of every kind *)
(* of rating; StakedSpec is the server with markets that earlier customers *)
(* have staked on heavily; EloSpec is a run of the rating engine.          *)
(*                                                                         *)
(* Numbers.  The program computes in double-precision floats.  Here every  *)
(* token, share and price is an integer count of thousandths (1 token =    *)
(* 1000, 1 share = 1000, 1 percent = 1000).  exp and log are not available *)
(* on integers, so b*ln(1+exp(-d/b)) and 100*exp(d/b)/(exp(d/b)+1) are     *)
(* tabulated at whole shares and interpolated linearly in between; the     *)
(* result is within 0.002 token / 0.002 percent of the float value.        *)
(*                                                                         *)
(* Scheduling.  main.py runs one uvicorn process (main.py:1366) with one   *)
(* asyncio event loop.  A coroutine is interleaved with others only at an  *)
(* await.  execute_trade and create_markets_from_games contain no await,   *)
(* so each is one step.  The user row is read by the get_current_user      *)
(* dependency, a separate coroutine that the framework runs before the     *)
(* handler body; the read of the user and the handler body are two steps,  *)
(* which covers every way the framework may schedule the two.              *)
(***************************************************************************)
EXTENDS Integers, Sequences, FiniteSets, TLC

\* ------------------------------------------------------------------ bounds
\* Number of trade requests accepted over a behaviour.
MaxTrades == 2
\* Last instant of the wall clock.
MaxTime == 1
\* Number of customers outside Users who staked before the requests modelled.
MaxStakes == 3
\* Number of entries of the game log of the rating engine.
MaxGames == 3

\* --------------------------------------------------------------- constants
\* One token / share / percent, in model units.
SCALE == 1000
\* STARTING_BALANCE = 10000 tokens.
STARTING_BALANCE == 10000000
\* LIQUIDITY_PARAMETER = 100 (the b of LMSR), in shares.
LIQUIDITY_PARAMETER == 100000
\* ELO_BASE = 1000.
ELO_BASE == 1000
\* The solver's "close enough" tolerance, 0.01 token.
Tolerance == 10
\* The solver's iteration cap, range(100).
MaxIterations == 100
\* math.exp(x / b) raises OverflowError for x / b > 709.78, i.e. x > 70978 shares.
ExpOverflowAt == 70978271

Max(a, b) == IF a >= b THEN a ELSE b

Abs(a) == IF a >= 0 THEN a ELSE -a

\* SoftplusTab[i+1] = b * ln(1 + exp(-i/b)) for i whole shares, b = 100, in milli-tokens.
SoftplusTab ==
  <<
    69315, 68816, 68320, 67826, 67335, 66846, 66360, 65876, 65395, 64916, 64440, 63966,
    63495, 63026, 62560, 62096, 61634, 61176, 60719, 60265, 59814, 59365, 58919, 58475,
    58033, 57594, 57157, 56723, 56292, 55862, 55436, 55011, 54589, 54170, 53753, 53338,
    52926, 52516, 52109, 51704, 51302, 50901, 50504, 50108, 49715, 49325, 48937, 48551,
    48167, 47786, 47408, 47031, 46657, 46286, 45916, 45549, 45185, 44822, 44462, 44104,
    43749, 43396, 43045, 42696, 42350, 42006, 41664, 41324, 40987, 40652, 40319, 39988,
    39659, 39333, 39009, 38687, 38367, 38050, 37734, 37421, 37110, 36801, 36494, 36190,
    35887, 35587, 35288, 34992, 34698, 34405, 34115, 33827, 33541, 33257, 32976, 32696,
    32418, 32142, 31868, 31596, 31326, 31058, 30792, 30528, 30266, 30006, 29748, 29491,
    29237, 28984, 28734, 28485, 28238, 27993, 27749, 27508, 27268, 27031, 26795, 26561,
    26328, 26098, 25869, 25642, 25416, 25193, 24971, 24751, 24533, 24316, 24101, 23888,
    23676, 23466, 23258, 23051, 22846, 22642, 22441, 22240, 22042, 21845, 21649, 21455,
    21263, 21072, 20883, 20695, 20509, 20325, 20141, 19960, 19779, 19601, 19423, 19248,
    19073, 18900, 18729, 18559, 18390, 18223, 18057, 17892, 17729, 17567, 17407, 17248,
    17090, 16934, 16779, 16625, 16472, 16321, 16171, 16022, 15875, 15729, 15584, 15440,
    15298, 15157, 15016, 14878, 14740, 14604, 14468, 14334, 14201, 14069, 13939, 13809,
    13681, 13553, 13427, 13302, 13178, 13055, 12933, 12813, 12693, 12574, 12456, 12340,
    12224, 12110, 11996, 11884, 11772, 11662, 11552, 11443, 11336, 11229, 11123, 11018,
    10915, 10812, 10710, 10609, 10508, 10409, 10311, 10213, 10116, 10021, 9926, 9832,
    9738, 9646, 9555, 9464, 9374, 9285, 9197, 9109, 9022, 8937, 8851, 8767,
    8684, 8601, 8519, 8438, 8357, 8277, 8198, 8120, 8042, 7965, 7889, 7813,
    7739, 7665, 7591, 7518, 7446, 7375, 7304, 7234, 7164, 7096, 7027, 6960,
    6893, 6827, 6761, 6696, 6631, 6568, 6504, 6442, 6380, 6318, 6257, 6197,
    6137, 6078, 6019, 5961, 5903, 5846, 5790, 5734, 5678, 5623, 5569, 5515,
    5462, 5409, 5356, 5304, 5253, 5202, 5152, 5102, 5052, 5003, 4954, 4906,
    4859, 4812, 4765, 4718, 4673, 4627, 4582, 4538, 4493, 4450, 4406, 4363,
    4321, 4279, 4237, 4196, 4155, 4115, 4074, 4035, 3995, 3956, 3918, 3880,
    3842, 3804, 3767, 3730, 3694, 3658, 3622, 3587, 3551, 3517, 3482, 3448,
    3415, 3381, 3348, 3315, 3283, 3251, 3219, 3187, 3156, 3125, 3095, 3064,
    3034, 3004, 2975, 2946, 2917, 2888, 2860, 2832, 2804, 2777, 2749, 2722,
    2696, 2669, 2643, 2617, 2591, 2566, 2541, 2516, 2491, 2467, 2442, 2418,
    2394, 2371, 2348, 2325, 2302, 2279, 2257, 2234, 2212, 2191, 2169, 2148,
    2127, 2106, 2085, 2064, 2044, 2024, 2004, 1984, 1965, 1945, 1926, 1907,
    1888, 1870, 1851, 1833, 1815, 1797, 1779, 1762, 1744, 1727, 1710, 1693,
    1677, 1660, 1644, 1627, 1611, 1595, 1580, 1564, 1549, 1533, 1518, 1503,
    1488, 1474, 1459, 1445, 1430, 1416, 1402, 1388, 1375, 1361, 1348, 1334,
    1321, 1308, 1295, 1282, 1270, 1257, 1245, 1232, 1220, 1208, 1196, 1184,
    1173, 1161, 1150, 1138, 1127, 1116, 1105, 1094, 1083, 1072, 1062, 1051,
    1041, 1030, 1020, 1010, 1000, 990, 980, 971, 961, 952, 942, 933,
    924, 914, 905, 896, 888, 879, 870, 861, 853, 844, 836, 828,
    820, 811, 803, 795, 788, 780, 772, 764, 757, 749, 742, 735,
    727, 720, 713, 706, 699, 692, 685, 678, 672, 665, 658, 652,
    645, 639, 633, 626, 620, 614, 608, 602, 596, 590, 584, 578,
    573, 567, 561, 556, 550, 545, 539, 534, 529, 523, 518, 513,
    508, 503, 498, 493, 488, 483, 478, 474, 469, 464, 460, 455,
    451, 446, 442, 437, 433, 429, 424, 420, 416, 412, 408, 404,
    400, 396, 392, 388, 384, 380, 377, 373, 369, 365, 362, 358,
    355, 351, 348, 344, 341, 337, 334, 331, 327, 324, 321, 318,
    315, 311, 308, 305, 302, 299, 296, 293, 290, 288, 285, 282,
    279, 276, 274, 271, 268, 265, 263, 260, 258, 255, 253, 250,
    248, 245, 243, 240, 238, 236, 233, 231, 229, 226, 224, 222,
    220, 217, 215, 213, 211, 209, 207, 205, 203, 201, 199, 197,
    195, 193, 191, 189, 187, 185, 183, 182, 180, 178, 176, 175,
    173, 171, 169, 168, 166, 164, 163, 161, 160, 158, 156, 155,
    153, 152, 150, 149, 147, 146, 144, 143, 141, 140, 139, 137,
    136, 135, 133, 132, 131, 129, 128, 127, 125, 124, 123, 122,
    121, 119, 118, 117, 116, 115, 114, 112, 111, 110, 109, 108,
    107, 106, 105, 104, 103, 102, 101, 100, 99, 98, 97, 96,
    95, 94, 93, 92, 91, 90, 89, 88, 88, 87, 86, 85,
    84, 83, 82, 82, 81, 80, 79, 78, 78, 77, 76, 75,
    75, 74, 73, 72, 72, 71, 70, 70, 69, 68, 68, 67,
    66, 66, 65, 64, 64, 63, 62, 62, 61, 60, 60, 59,
    59, 58, 58, 57, 56, 56, 55, 55, 54, 54, 53, 53,
    52, 52, 51, 51, 50, 50, 49, 49, 48, 48, 47, 47,
    46, 46, 45, 45, 44, 44, 43, 43, 43, 42, 42, 41,
    41, 41, 40, 40, 39, 39, 39, 38, 38, 37, 37, 37,
    36, 36, 36, 35, 35, 35, 34, 34, 34, 33, 33, 33,
    32, 32, 32, 31, 31, 31, 30, 30, 30, 29, 29, 29,
    29, 28, 28, 28, 27, 27, 27, 27, 26, 26, 26, 26,
    25, 25, 25, 25, 24, 24, 24, 24, 23, 23, 23, 23,
    22, 22, 22, 22, 22, 21, 21, 21, 21, 21, 20, 20,
    20, 20, 20, 19, 19, 19, 19, 19, 18, 18, 18, 18,
    18, 18, 17, 17, 17, 17, 17, 16, 16, 16, 16, 16,
    16, 16, 15, 15, 15, 15, 15, 15, 14, 14, 14, 14,
    14, 14, 14, 14, 13, 13, 13, 13, 13, 13, 13, 12,
    12, 12, 12, 12, 12, 12, 12, 12, 11, 11, 11, 11,
    11, 11, 11, 11, 11, 10, 10, 10, 10, 10, 10, 10,
    10, 10, 10, 9, 9, 9, 9, 9, 9, 9, 9, 9,
    9, 9, 8, 8, 8, 8, 8, 8, 8, 8, 8, 8,
    8, 8, 7, 7, 7, 7, 7, 7, 7, 7, 7, 7,
    7, 7, 7, 7, 7, 6, 6, 6, 6, 6, 6, 6,
    6, 6, 6, 6, 6, 6, 6, 6, 6, 5, 5, 5,
    5, 5, 5, 5, 5, 5, 5, 5, 5, 5, 5, 5,
    5, 5, 5, 5, 5, 4, 4, 4, 4, 4, 4, 4,
    4, 4, 4, 4, 4, 4, 4, 4, 4, 4, 4, 4,
    4, 4, 4, 4, 4, 4, 4, 3, 3, 3, 3, 3,
    3, 3, 3, 3, 3, 3, 3, 3, 3, 3, 3, 3,
    3, 3, 3, 3, 3, 3, 3, 3, 3, 3, 3, 3,
    3, 3, 3, 3, 2, 2, 2, 2, 2, 2, 2, 2,
    2, 2, 2, 2, 2, 2, 2, 2, 2, 2, 2, 2,
    2, 2, 2, 2, 2, 2, 2, 2, 2, 2, 2, 2,
    2, 2, 2, 2, 2, 2, 2, 2, 2, 2, 2, 2,
    2, 2, 2, 2, 2, 2, 2, 1, 1, 1, 1, 1,
    1, 1, 1, 1, 1, 1, 1, 1, 1, 1, 1, 1,
    1, 1, 1, 1, 1, 1, 1, 1, 1, 1, 1, 1,
    1, 1, 1, 1, 1, 1, 1, 1, 1, 1, 1, 1,
    1, 1, 1, 1, 1, 1, 1, 1, 1, 1, 1, 1,
    1, 1, 1, 1, 1, 1, 1, 1, 1, 1, 1, 1,
    1, 1, 1, 1, 1, 1, 1, 1, 1, 1, 1, 1,
    1, 1, 1, 1, 1, 1, 1, 1, 1, 1, 1, 1,
    1, 1, 1, 1, 1, 1, 1, 1, 1, 1, 1, 1,
    1, 1, 1, 1, 1, 1, 1, 1, 1, 0, 0
  >>

\* SigmoidTab[i+1] = 100 * exp(i/b) / (exp(i/b) + 1) for i whole shares, in milli-percent.
SigmoidTab ==
  <<
    50000, 50250, 50500, 50750, 51000, 51250, 51500, 51749, 51999, 52248, 52498, 52747,
    52996, 53245, 53494, 53743, 53991, 54240, 54488, 54736, 54983, 55231, 55478, 55725,
    55971, 56218, 56464, 56709, 56955, 57200, 57444, 57689, 57932, 58176, 58419, 58662,
    58904, 59146, 59387, 59628, 59869, 60109, 60348, 60587, 60826, 61064, 61301, 61538,
    61775, 62011, 62246, 62481, 62715, 62948, 63181, 63414, 63645, 63876, 64107, 64337,
    64566, 64794, 65022, 65249, 65475, 65701, 65926, 66150, 66374, 66597, 66819, 67040,
    67261, 67481, 67700, 67918, 68135, 68352, 68568, 68783, 68997, 69211, 69424, 69635,
    69847, 70057, 70266, 70475, 70682, 70889, 71095, 71300, 71504, 71708, 71910, 72112,
    72312, 72512, 72711, 72909, 73106, 73302, 73497, 73692, 73885, 74077, 74269, 74460,
    74649, 74838, 75026, 75213, 75399, 75584, 75768, 75951, 76133, 76315, 76495, 76674,
    76852, 77030, 77206, 77382, 77556, 77730, 77903, 78074, 78245, 78415, 78583, 78751,
    78918, 79084, 79249, 79413, 79576, 79738, 79899, 80059, 80218, 80377, 80534, 80690,
    80845, 81000, 81153, 81306, 81457, 81608, 81757, 81906, 82054, 82201, 82346, 82491,
    82635, 82778, 82920, 83062, 83202, 83341, 83480, 83617, 83753, 83889, 84024, 84158,
    84290, 84422, 84553, 84684, 84813, 84941, 85069, 85195, 85321, 85446, 85570, 85693,
    85815, 85936, 86057, 86176, 86295, 86413, 86530, 86646, 86761, 86876, 86989, 87102,
    87214, 87325, 87435, 87545, 87653, 87761, 87868, 87974, 88080, 88184, 88288, 88391,
    88493, 88595, 88695, 88795, 88894, 88993, 89090, 89187, 89283, 89379, 89473, 89567,
    89660, 89752, 89844, 89935, 90025, 90114, 90203, 90291, 90378, 90465, 90551, 90636,
    90721, 90805, 90888, 90970, 91052, 91133, 91214, 91293, 91373, 91451, 91529, 91606,
    91683, 91759, 91834, 91909, 91983, 92056, 92129, 92201, 92273, 92344, 92414, 92484,
    92553, 92622, 92690, 92757, 92824, 92891, 92956, 93022, 93086, 93150, 93214, 93277,
    93339, 93401, 93462, 93523, 93584, 93643, 93703, 93761, 93820, 93877, 93935, 93991,
    94048, 94103, 94159, 94213, 94268, 94321, 94375, 94428, 94480, 94532, 94583, 94634,
    94685, 94735, 94785, 94834, 94883, 94931, 94979, 95026, 95073, 95120, 95166, 95212,
    95257, 95302, 95347, 95391, 95435, 95478, 95521, 95564, 95606, 95648, 95689, 95730,
    95771, 95811, 95851, 95891, 95930, 95969, 96007, 96046, 96083, 96121, 96158, 96195,
    96231, 96267, 96303, 96339, 96374, 96408, 96443, 96477, 96511, 96544, 96578, 96610,
    96643, 96675, 96707, 96739, 96770, 96802, 96832, 96863, 96893, 96923, 96953, 96982,
    97011, 97040, 97069, 97097, 97125, 97153, 97180, 97208, 97235, 97262, 97288, 97314,
    97340, 97366, 97392, 97417, 97442, 97467, 97491, 97516, 97540, 97564, 97587, 97611,
    97634, 97657, 97680, 97702, 97725, 97747, 97769, 97790, 97812, 97833, 97854, 97875,
    97896, 97916, 97937, 97957, 97977, 97996, 98016, 98035, 98054, 98073, 98092, 98111,
    98129, 98148, 98166, 98184, 98201, 98219, 98236, 98254, 98271, 98288, 98304, 98321,
    98337, 98354, 98370, 98386, 98402, 98417, 98433, 98448, 98463, 98478, 98493, 98508,
    98523, 98537, 98551, 98566, 98580, 98594, 98607, 98621, 98635, 98648, 98661, 98674,
    98687, 98700, 98713, 98726, 98738, 98751, 98763, 98775, 98787, 98799, 98811, 98823,
    98834, 98846, 98857, 98868, 98879, 98890, 98901, 98912, 98923, 98933, 98944, 98954,
    98965, 98975, 98985, 98995, 99005, 99015, 99024, 99034, 99043, 99053, 99062, 99071,
    99081, 99090, 99099, 99108, 99116, 99125, 99134, 99142, 99151, 99159, 99167, 99176,
    99184, 99192, 99200, 99208, 99215, 99223, 99231, 99239, 99246, 99253, 99261, 99268,
    99275, 99283, 99290, 99297, 99304, 99310, 99317, 99324, 99331, 99337, 99344, 99350,
    99357, 99363, 99369, 99376, 99382, 99388, 99394, 99400, 99406, 99412, 99418, 99423,
    99429, 99435, 99440, 99446, 99451, 99457, 99462, 99467, 99473, 99478, 99483, 99488,
    99493, 99498, 99503, 99508, 99513, 99518, 99523, 99527, 99532, 99537, 99541, 99546,
    99550, 99555, 99559, 99564, 99568, 99572, 99576, 99581, 99585, 99589, 99593, 99597,
    99601, 99605, 99609, 99613, 99617, 99620, 99624, 99628, 99632, 99635, 99639, 99642,
    99646, 99649, 99653, 99656, 99660, 99663, 99667, 99670, 99673, 99676, 99680, 99683,
    99686, 99689, 99692, 99695, 99698, 99701, 99704, 99707, 99710, 99713, 99716, 99719,
    99721, 99724, 99727, 99730, 99732, 99735, 99737, 99740, 99743, 99745, 99748, 99750,
    99753, 99755, 99758, 99760, 99762, 99765, 99767, 99769, 99772, 99774, 99776, 99778,
    99781, 99783, 99785, 99787, 99789, 99791, 99793, 99795, 99797, 99799, 99801, 99803,
    99805, 99807, 99809, 99811, 99813, 99815, 99817, 99819, 99820, 99822, 99824, 99826,
    99827, 99829, 99831, 99832, 99834, 99836, 99837, 99839, 99841, 99842, 99844, 99845,
    99847, 99848, 99850, 99851, 99853, 99854, 99856, 99857, 99859, 99860, 99861, 99863,
    99864, 99865, 99867, 99868, 99869, 99871, 99872, 99873, 99875, 99876, 99877, 99878,
    99879, 99881, 99882, 99883, 99884, 99885, 99887, 99888, 99889, 99890, 99891, 99892,
    99893, 99894, 99895, 99896, 99897, 99898, 99899, 99900, 99901, 99902, 99903, 99904,
    99905, 99906, 99907, 99908, 99909, 99910, 99911, 99912, 99912, 99913, 99914, 99915,
    99916, 99917, 99918, 99918, 99919, 99920, 99921, 99922, 99922, 99923, 99924, 99925,
    99925, 99926, 99927, 99928, 99928, 99929, 99930, 99930, 99931, 99932, 99932, 99933,
    99934, 99934, 99935, 99936, 99936, 99937, 99938, 99938, 99939, 99940, 99940, 99941,
    99941, 99942, 99942, 99943, 99944, 99944, 99945, 99945, 99946, 99946, 99947, 99947,
    99948, 99948, 99949, 99949, 99950, 99950, 99951, 99951, 99952, 99952, 99953, 99953,
    99954, 99954, 99955, 99955, 99956, 99956, 99957, 99957, 99957, 99958, 99958, 99959,
    99959, 99959, 99960, 99960, 99961, 99961, 99961, 99962, 99962, 99963, 99963, 99963,
    99964, 99964, 99964, 99965, 99965, 99965, 99966, 99966, 99966, 99967, 99967, 99967,
    99968, 99968, 99968, 99969, 99969, 99969, 99970, 99970, 99970, 99971, 99971, 99971,
    99971, 99972, 99972, 99972, 99973, 99973, 99973, 99973, 99974, 99974, 99974, 99974,
    99975, 99975, 99975, 99975, 99976, 99976, 99976, 99976, 99977, 99977, 99977, 99977,
    99978, 99978, 99978, 99978, 99978, 99979, 99979, 99979, 99979, 99979, 99980, 99980,
    99980, 99980, 99980, 99981, 99981, 99981, 99981, 99981, 99982, 99982, 99982, 99982,
    99982, 99982, 99983, 99983, 99983, 99983, 99983, 99984, 99984, 99984, 99984, 99984,
    99984, 99984, 99985, 99985, 99985, 99985, 99985, 99985, 99986, 99986, 99986, 99986,
    99986, 99986, 99986, 99986, 99987, 99987, 99987, 99987, 99987, 99987, 99987, 99988,
    99988, 99988, 99988, 99988, 99988, 99988, 99988, 99988, 99989, 99989, 99989, 99989,
    99989, 99989, 99989, 99989, 99989, 99990, 99990, 99990, 99990, 99990, 99990, 99990,
    99990, 99990, 99990, 99991, 99991, 99991, 99991, 99991, 99991, 99991, 99991, 99991,
    99991, 99991, 99992, 99992, 99992, 99992, 99992, 99992, 99992, 99992, 99992, 99992,
    99992, 99992, 99993, 99993, 99993, 99993, 99993, 99993, 99993, 99993, 99993, 99993,
    99993, 99993, 99993, 99993, 99993, 99994, 99994, 99994, 99994, 99994, 99994, 99994,
    99994, 99994, 99994, 99994, 99994, 99994, 99994, 99994, 99994, 99995, 99995, 99995,
    99995, 99995, 99995, 99995, 99995, 99995, 99995, 99995, 99995, 99995, 99995, 99995,
    99995, 99995, 99995, 99995, 99995, 99996, 99996, 99996, 99996, 99996, 99996, 99996,
    99996, 99996, 99996, 99996, 99996, 99996, 99996, 99996, 99996, 99996, 99996, 99996,
    99996, 99996, 99996, 99996, 99996, 99996, 99996, 99997, 99997, 99997, 99997, 99997,
    99997, 99997, 99997, 99997, 99997, 99997, 99997, 99997, 99997, 99997, 99997, 99997,
    99997, 99997, 99997, 99997, 99997, 99997, 99997, 99997, 99997, 99997, 99997, 99997,
    99997, 99997, 99997, 99997, 99998, 99998, 99998, 99998, 99998, 99998, 99998, 99998,
    99998, 99998, 99998, 99998, 99998, 99998, 99998, 99998, 99998, 99998, 99998, 99998,
    99998, 99998, 99998, 99998, 99998, 99998, 99998, 99998, 99998, 99998, 99998, 99998,
    99998, 99998, 99998, 99998, 99998, 99998, 99998, 99998, 99998, 99998, 99998, 99998,
    99998, 99998, 99998, 99998, 99998, 99998, 99998, 99999, 99999, 99999, 99999, 99999,
    99999, 99999, 99999, 99999, 99999, 99999, 99999, 99999, 99999, 99999, 99999, 99999,
    99999, 99999, 99999, 99999, 99999, 99999, 99999, 99999, 99999, 99999, 99999, 99999,
    99999, 99999, 99999, 99999, 99999, 99999, 99999, 99999, 99999, 99999, 99999, 99999,
    99999, 99999, 99999, 99999, 99999, 99999, 99999, 99999, 99999, 99999, 99999, 99999,
    99999, 99999, 99999, 99999, 99999, 99999, 99999, 99999, 99999, 99999, 99999, 99999,
    99999, 99999, 99999, 99999, 99999, 99999, 99999, 99999, 99999, 99999, 99999, 99999,
    99999, 99999, 99999, 99999, 99999, 99999, 99999, 99999, 99999, 99999, 99999, 99999,
    99999, 99999, 99999, 99999, 99999, 99999, 99999, 99999, 99999, 99999, 99999, 99999,
    99999, 99999, 99999, 99999, 99999, 99999, 99999, 99999, 99999, 100000, 100000
  >>

\* Linear interpolation in a table with one knot per share; beyond the table
\* the function has reached its limit value.
Interpolate(T, d, limit) ==
  LET i == d \div SCALE
      r == d % SCALE
  IN IF i + 2 > Len(T) THEN limit
     ELSE T[i + 1] + ((T[i + 2] - T[i + 1]) * r + (SCALE \div 2)) \div SCALE

\* math.exp(x / b) of the source raises OverflowError.
ExpOverflows(x) == x > ExpOverflowAt

\* b * math.log(math.exp(x / b) + math.exp(y / b)), for x, y that do not overflow:
\* max(x, y) + b * ln(1 + exp(-|x - y| / b)).
LogSumExp(x, y) == Max(x, y) + Interpolate(SoftplusTab, Abs(x - y), 0)

\* calculate_lmsr_price: (price_yes, price_no) in milli-percent; (50, 50) when
\* an exponential overflows.
calculate_lmsr_price(shares_yes, shares_no) ==
  IF ExpOverflows(shares_yes) \/ ExpOverflows(shares_no)
  THEN <<50 * SCALE, 50 * SCALE>>
  ELSE LET hi == Interpolate(SigmoidTab, Abs(shares_yes - shares_no), 100 * SCALE)
       IN IF shares_yes >= shares_no
          THEN <<hi, 100 * SCALE - hi>>
          ELSE <<100 * SCALE - hi, hi>>

\* calculate_cost: max(0, after - before); 0 when an exponential overflows.
calculate_cost(current_shares, new_shares, other_shares) ==
  IF \/ ExpOverflows(current_shares)
     \/ ExpOverflows(new_shares)
     \/ ExpOverflows(other_shares)
  THEN 0
  ELSE Max(0, LogSumExp(new_shares, other_shares)
              - LogSumExp(current_shares, other_shares))

\* calculate_sell_value: max(0, before - after); 0 when an exponential overflows.
calculate_sell_value(user_shares, current_side_shares, other_shares) ==
  IF \/ ExpOverflows(current_side_shares)
     \/ ExpOverflows(other_shares)
  THEN 0
  ELSE Max(0, LogSumExp(current_side_shares, other_shares)
              - LogSumExp(current_side_shares - user_shares, other_shares))

\* round(x, 2) on a value in thousandths: to the nearest hundredth, a tie
\* going to the even hundredth.
Round2(x) ==
  LET q == x \div 10
      r == x % 10
  IN IF r < 5 THEN q * 10
     ELSE IF r > 5 THEN (q + 1) * 10
     ELSE IF q % 2 = 0 THEN q * 10 ELSE (q + 1) * 10

\* The bisection of execute_trade, lines 635-650: state is (low, high,
\* shares_to_buy) and k iterations remain.  Returns shares_to_buy.  Once an
\* iteration leaves the state as it found it, every remaining iteration does
\* the same, and the loop's result is the shares_to_buy of that state.
RECURSIVE Bisect(_, _, _, _, _, _, _)
Bisect(k, low, high, shares_to_buy, amount, current, other) ==
  IF k = 0 THEN shares_to_buy
  ELSE LET mid  == (low + high) \div 2
           cost == calculate_cost(current, current + mid, other)
       IN IF Abs(cost - amount) < Tolerance THEN mid
          ELSE IF cost < amount
               THEN IF mid = low /\ mid = shares_to_buy THEN shares_to_buy
                    ELSE Bisect(k - 1, mid, high, mid, amount, current, other)
               ELSE IF mid = high THEN shares_to_buy
                    ELSE Bisect(k - 1, low, mid, shares_to_buy, amount, current, other)

\* Lines 635-636 and 638: low, high = 0.0, amount * 10; shares_to_buy = 0.0.
SolveShares(amount, current, other) ==
  Bisect(MaxIterations, 0, amount * 10, 0, amount, current, other)

\* ------------------------------------------------------------ fixture feed
Games == {"g1", "g2"}

Users == {1, 2}

Reqs == {1, 2}

\* market_id = f"market_{game.game_id}"
MarketIdOf(game_id) == "market_" \o game_id

MarketIds == {MarketIdOf(g) : g \in Games}

\* Team names that represent placeholder slots.
GENERIC_TEAMS == {"tbd", "bye", "generic team", "unknown", "home", "away", "team", ""}

\* name.strip().lower() on the team names of the feed.
StripLower(name) ==
  CASE name = "Alpha" -> "alpha"
    [] name = "Beta"  -> "beta"
    [] name = "Gamma" -> "gamma"
    [] name = "Delta" -> "delta"
    [] name = " TBD"  -> "tbd"
    [] OTHER          -> name

HomeTeam(game_id) == IF game_id = "g1" THEN "Alpha" ELSE "Gamma"

AwayTeam(game_id) == IF game_id = "g1" THEN "Beta" ELSE "Delta"

\* elo_data as loaded from the ratings file.  Of the teams of the two games
\* only Alpha is rated; Epsilon is rated at the base rating, Zeta one point
\* above it and Eta well below it; every other team is unknown.
elo_data ==
  [sport \in {"Soccer"} |->
     [team \in {"Alpha", "Epsilon", "Zeta", "Eta"} |->
        CASE team = "Alpha"   -> 1200
          [] team = "Epsilon" -> 1000
          [] team = "Zeta"    -> 1001
          [] team = "Eta"     -> 800]]

\* Fixture(...) is one Game of the feed.
Fixture(g, status, home_score, away_score, time, date) ==
  [game_id |-> g, home_team |-> HomeTeam(g), away_team |-> AwayTeam(g),
   sport |-> "Soccer", status |-> status, home_score |-> home_score,
   away_score |-> away_score, time |-> time, date |-> date]

\* What the schedule parser emits for a game: scheduled with no score and a
\* kick-off time, TBD or FINAL, completed with two digit strings, forfeit with
\* a score that is not a number.  The second game is only ever scheduled.
FixturesOf(g) ==
  IF g = "g1"
  THEN {Fixture(g, "scheduled", "--", "--", "7:00 PM", "01/05/2026"),
        Fixture(g, "scheduled", "--", "--", "TBD", "01/05/2026"),
        Fixture(g, "scheduled", "--", "--", "TBD", ""),
        Fixture(g, "scheduled", "--", "--", "FINAL", ""),
        Fixture(g, "completed", "2", "1", "FINAL", "01/05/2026"),
        Fixture(g, "completed", "1", "2", "FINAL", "01/05/2026"),
        Fixture(g, "completed", "1", "1", "FINAL", "01/05/2026"),
        Fixture(g, "forfeit", "W", "1", "FINAL", "01/05/2026")}
  ELSE {Fixture(g, "scheduled", "--", "--", "7:00 PM", "01/05/2026")}

\* A placeholder matchup, as the feed lists before the bracket is known.
PlaceholderFixture ==
  [game_id |-> "g3", home_team |-> " TBD", away_team |-> "Alpha",
   sport |-> "Soccer", status |-> "scheduled", home_score |-> "--",
   away_score |-> "--", time |-> "TBD", date |-> "01/05/2026"]

Fixtures == UNION {FixturesOf(g) : g \in Games} \cup {PlaceholderFixture}

\* int(s) succeeds on the digit strings of the feed.
IsIntString(s) == s \in {"0", "1", "2"}

IntOf(s) == CASE s = "0" -> 0 [] s = "1" -> 1 [] s = "2" -> 2

\* datetime.strptime(f"{game_date} {game_time}", fmt) over the three formats
\* of is_market_closed: <<TRUE, instant>> when one of them parses.  The clock
\* counts instants: 0 is 01/05/2026 00:00 and 1 is 01/05/2026 7:00 PM.
ParseGameDatetime(game_time, game_date) ==
  IF game_date = "01/05/2026" /\ game_time = "7:00 PM" THEN <<TRUE, 1>>
  ELSE IF game_date = "01/05/2026" /\ game_time = "TBD" THEN <<TRUE, 0>>
  ELSE <<FALSE, 0>>

\* is_market_closed at wall-clock instant t.
is_market_closed(game_time, game_date, t) ==
  LET parsed == ParseGameDatetime(game_time, game_date)
  IN IF parsed[1] THEN t >= parsed[2]
     ELSE IF game_time = "TBD" THEN FALSE
     ELSE IF game_time \in {"FINAL", "BYE", "FORFEIT"} THEN TRUE
     ELSE FALSE

\* elo_win_prob is 1 / (1 + 10 ** ((rating_b - rating_a) / 400)), so
\* b * ln(p / (1 - p)) = b * ln(10) * (rating_a - rating_b) / 400:
\* 575.646 thousandths of a share per rating point.
SeedShares(rating_diff) == (rating_diff * 575646) \div SCALE

EloOf(sport, team) ==
  IF sport \in DOMAIN elo_data /\ team \in DOMAIN elo_data[sport]
  THEN elo_data[sport][team]
  ELSE ELO_BASE

\* get_elo_seeded_shares that always seeds the home side, whichever team is
\* rated higher.
get_elo_seeded_shares_home_side(home_team, away_team, sport) ==
  LET home_elo_val == EloOf(sport, home_team)
      away_elo_val == EloOf(sport, away_team)
      home_shares  == SeedShares(Abs(home_elo_val - away_elo_val))
      initial_volume == IF home_shares > 0
                        THEN LogSumExp(home_shares, 0) - LogSumExp(0, 0)
                        ELSE 0
  IN [home_shares |-> home_shares, away_shares |-> 0,
      home_elo |-> home_elo_val, away_elo |-> away_elo_val,
      initial_volume |-> initial_volume]

\* get_elo_seeded_shares: the favoured side gets b * ln(p_fav / p_dog) shares,
\* the other 0; initial_volume is the cost of moving from (0, 0) to the seed.
get_elo_seeded_shares(home_team, away_team, sport) ==
  LET home_elo_val == EloOf(sport, home_team)
      away_elo_val == EloOf(sport, away_team)
      home_shares  == IF home_elo_val >= away_elo_val
                      THEN SeedShares(home_elo_val - away_elo_val) ELSE 0
      away_shares  == IF home_elo_val >= away_elo_val
                      THEN 0 ELSE SeedShares(away_elo_val - home_elo_val)
      seeded_q     == IF home_shares > 0 THEN home_shares ELSE away_shares
      initial_volume == IF seeded_q > 0
                        THEN LogSumExp(seeded_q, 0) - LogSumExp(0, 0)
                        ELSE 0
  IN [home_shares |-> home_shares, away_shares |-> away_shares,
      home_elo |-> home_elo_val, away_elo |-> away_elo_val,
      initial_volume |-> initial_volume]

\* ---------------------------------------------------------- record store
\* db.upsert_market: insert the row, or on a conflict of market_id update
\* status, prices, shares, volume, winner and scores (not the ratings).
upsert_market(table, market) ==
  IF market.market_id \in DOMAIN table
  THEN [table EXCEPT ![market.market_id] =
          [@ EXCEPT !.status = market.status,
                    !.home_price = market.home_price,
                    !.away_price = market.away_price,
                    !.home_shares = market.home_shares,
                    !.away_shares = market.away_shares,
                    !.total_volume = market.total_volume,
                    !.winner = market.winner,
                    !.home_score = market.home_score,
                    !.away_score = market.away_score]]
  ELSE [id \in DOMAIN table \cup {market.market_id} |->
          IF id = market.market_id THEN market ELSE table[id]]

\* update_user_balance that stores the new balance as it is given.
update_user_balance_unclamped(table, user_id, new_balance) ==
  [table EXCEPT ![user_id] = new_balance]

\* db.update_user_balance: the balance is clamped to a minimum of 0.
update_user_balance(table, user_id, new_balance) ==
  [table EXCEPT ![user_id] = IF new_balance <= 0 THEN 0 ELSE new_balance]

\* db.upsert_position: insert or overwrite the row of (user_id, market_id).
upsert_position(table, user_id, market_id, position) ==
  [k \in DOMAIN table \cup {<<user_id, market_id>>} |->
     IF k = <<user_id, market_id>> THEN position ELSE table[k]]

\* The winner derived from the scores of a completed or forfeited game.
WinnerOf(game) ==
  IF game.home_score # "--" /\ game.away_score # "--"
  THEN IF IsIntString(game.home_score) /\ IsIntString(game.away_score)
       THEN IF IntOf(game.home_score) > IntOf(game.away_score)
            THEN "home" ELSE "away"
       ELSE "None"
  ELSE "None"

\* Lines 348-364: status and winner of the market of a fixture at instant t.
StatusOf(game, t) ==
  IF game.status \in {"completed", "forfeit"}
  THEN [status |-> "settled", winner |-> WinnerOf(game)]
  ELSE IF is_market_closed(game.time, game.date, t)
       THEN [status |-> "closed", winner |-> "None"]
       ELSE [status |-> "open", winner |-> "None"]

\* Lines 369-397: the row of a market seen for the first time.
NewMarket(game, st) ==
  LET seed  == get_elo_seeded_shares(game.home_team, game.away_team, game.sport)
      price == calculate_lmsr_price(seed.home_shares, seed.away_shares)
  IN [market_id |-> MarketIdOf(game.game_id), game_id |-> game.game_id,
      status |-> st.status,
      home_shares |-> seed.home_shares, away_shares |-> seed.away_shares,
      total_volume |-> seed.initial_volume,
      winner |-> st.winner,
      home_score |-> game.home_score, away_score |-> game.away_score,
      home_elo |-> seed.home_elo, away_elo |-> seed.away_elo,
      home_price |-> Round2(price[1]), away_price |-> Round2(price[2])]

\* UpdatedMarket that seeds the volume again on every pass.
UpdatedMarketReseeded(existing_market, game, st) ==
  LET price == calculate_lmsr_price(existing_market.home_shares,
                                    existing_market.away_shares)
      seed  == get_elo_seeded_shares(game.home_team, game.away_team, game.sport)
  IN [existing_market EXCEPT !.status = st.status,
                             !.winner = st.winner,
                             !.home_score = game.home_score,
                             !.away_score = game.away_score,
                             !.total_volume = seed.initial_volume,
                             !.home_price = Round2(price[1]),
                             !.away_price = Round2(price[2])]

\* UpdatedMarket that adds the seeding cost to the volume on every pass.
UpdatedMarketVolumeAdded(existing_market, game, st) ==
  LET price == calculate_lmsr_price(existing_market.home_shares,
                                    existing_market.away_shares)
      seed  == get_elo_seeded_shares(game.home_team, game.away_team, game.sport)
  IN [existing_market EXCEPT !.status = st.status,
                             !.winner = st.winner,
                             !.home_score = game.home_score,
                             !.away_score = game.away_score,
                             !.total_volume = @ + seed.initial_volume,
                             !.home_price = Round2(price[1]),
                             !.away_price = Round2(price[2])]

\* UpdatedMarket that leaves the stored winner as it is.
UpdatedMarketWinnerKept(existing_market, game, st) ==
  LET price == calculate_lmsr_price(existing_market.home_shares,
                                    existing_market.away_shares)
  IN [existing_market EXCEPT !.status = st.status,
                             !.home_score = game.home_score,
                             !.away_score = game.away_score,
                             !.home_price = Round2(price[1]),
                             !.away_price = Round2(price[2])]

\* UpdatedMarket that seeds the share totals again on every pass.
UpdatedMarketSharesReseeded(existing_market, game, st) ==
  LET seed  == get_elo_seeded_shares(game.home_team, game.away_team, game.sport)
      price == calculate_lmsr_price(seed.home_shares, seed.away_shares)
  IN [existing_market EXCEPT !.status = st.status,
                             !.winner = st.winner,
                             !.home_score = game.home_score,
                             !.away_score = game.away_score,
                             !.home_shares = seed.home_shares,
                             !.away_shares = seed.away_shares,
                             !.home_price = Round2(price[1]),
                             !.away_price = Round2(price[2])]

\* Lines 398-412: the row of an existing market after the pass.
UpdatedMarket(existing_market, game, st) ==
  LET price == calculate_lmsr_price(existing_market.home_shares,
                                    existing_market.away_shares)
  IN [existing_market EXCEPT !.status = st.status,
                             !.winner = st.winner,
                             !.home_score = game.home_score,
                             !.away_score = game.away_score,
                             !.home_price = Round2(price[1]),
                             !.away_price = Round2(price[2])]

\* One iteration of the loop of create_markets_from_games.
ProcessGame(table, game, t) ==
  IF \/ StripLower(game.home_team) \in GENERIC_TEAMS
     \/ StripLower(game.away_team) \in GENERIC_TEAMS
  THEN table
  ELSE LET st == StatusOf(game, t)
           market_id == MarketIdOf(game.game_id)
       IN IF market_id \notin DOMAIN table
          THEN upsert_market(table, NewMarket(game, st))
          ELSE upsert_market(table, UpdatedMarket(table[market_id], game, st))

\* create_markets_from_games: the loop over the games of the feed.
RECURSIVE create_markets_from_games(_, _, _)
create_markets_from_games(table, games, t) ==
  IF games = <<>> THEN table
  ELSE create_markets_from_games(ProcessGame(table, Head(games), t), Tail(games), t)

\* ------------------------------------------------------- the rating engine
\* src/elo_ratings.py, run as a script: load_games reads the scraped game log,
\* compute_elo walks it in date order.  Ratings are integers in millionths
\* of a rating point, margin multipliers and win probabilities in
\* thousandths, margin weights in hundredths.
\* BASE_ELO = 1000, the starting rating of every team.
BASE_ELO == 1000
\* One rating point, in model units.
MICRO == 1000000

\* SPORT_CONFIG in the order of the dict literal, and DEFAULT_CONFIG.
SPORT_CONFIG ==
  << [key |-> "cornhole",      k_base |-> 80,  mov_weight |-> 25],
     [key |-> "dodgeball",     k_base |-> 80,  mov_weight |-> 40],
     [key |-> "basketball",    k_base |-> 100, mov_weight |-> 250],
     [key |-> "flag football", k_base |-> 100, mov_weight |-> 250],
     [key |-> "omegaball",     k_base |-> 100, mov_weight |-> 100] >>

DEFAULT_CONFIG == [k_base |-> 100, mov_weight |-> 100]

\* The characters of the strings that are searched: the keys of SPORT_CONFIG
\* and the sport names of the game log.
Chars(s) ==
  CASE s = "cornhole"      -> <<"c","o","r","n","h","o","l","e">>
    [] s = "dodgeball"     -> <<"d","o","d","g","e","b","a","l","l">>
    [] s = "basketball"    -> <<"b","a","s","k","e","t","b","a","l","l">>
    [] s = "flag football" -> <<"f","l","a","g"," ","f","o","o","t","b","a","l","l">>
    [] s = "omegaball"     -> <<"o","m","e","g","a","b","a","l","l">>
    [] s = "Cornhole"      -> <<"C","o","r","n","h","o","l","e">>
    [] s = "5v5 Basketball" ->
         <<"5","v","5"," ","B","a","s","k","e","t","b","a","l","l">>
    [] s = "Basketball/Dodgeball" ->
         <<"B","a","s","k","e","t","b","a","l","l","/",
           "D","o","d","g","e","b","a","l","l">>
    [] s = "Soccer"        -> <<"S","o","c","c","e","r">>

\* str.lower() on one character.
LowerChar(c) ==
  CASE c = "B" -> "b"
    [] c = "C" -> "c"
    [] c = "D" -> "d"
    [] c = "S" -> "s"
    [] OTHER   -> c

\* sport.lower()
Lower(chars) == [i \in DOMAIN chars |-> LowerChar(chars[i])]

\* key in s, on character sequences.
Contains(key, s) ==
  \E i \in 0..(Len(s) - Len(key)) : SubSeq(s, i + 1, i + Len(key)) = key

\* get_sport_config: the entry of the first key, in the order of SPORT_CONFIG,
\* that occurs in the lower-cased sport name, else DEFAULT_CONFIG.
get_sport_config(sport) ==
  LET s == Lower(Chars(sport))
      found == {i \in DOMAIN SPORT_CONFIG : Contains(Chars(SPORT_CONFIG[i].key), s)}
  IN IF found = {} THEN DEFAULT_CONFIG
     ELSE LET first == CHOOSE i \in found : \A j \in found : i <= j
          IN [k_base |-> SPORT_CONFIG[first].k_base,
              mov_weight |-> SPORT_CONFIG[first].mov_weight]

\* ExpectedTab[d + 1] = 1000 / (1 + 10 ** (-d / 400)) for d whole rating
\* points, rounded to thousandths.
ExpectedTab ==
  <<
    500, 501, 503, 504, 506, 507, 509, 510, 512, 513, 514, 516, 517, 519, 520, 522,
    523, 524, 526, 527, 529, 530, 532, 533, 534, 536, 537, 539, 540, 542, 543, 544,
    546, 547, 549, 550, 552, 553, 554, 556, 557, 559, 560, 562, 563, 564, 566, 567,
    569, 570, 571, 573, 574, 576, 577, 578, 580, 581, 583, 584, 585, 587, 588, 590,
    591, 592, 594, 595, 597, 598, 599, 601, 602, 604, 605, 606, 608, 609, 610, 612,
    613, 615, 616, 617, 619, 620, 621, 623, 624, 625, 627, 628, 629, 631, 632, 633,
    635, 636, 637, 639, 640, 641, 643, 644, 645, 647, 648, 649, 651, 652, 653, 655,
    656, 657, 658, 660, 661, 662, 664, 665, 666, 667, 669, 670, 671, 673, 674, 675,
    676, 678, 679, 680, 681, 683, 684, 685, 686, 688, 689, 690, 691, 692, 694, 695,
    696, 697, 699, 700, 701, 702, 703, 705, 706, 707, 708, 709, 711, 712, 713, 714,
    715, 716, 718, 719, 720, 721, 722, 723, 725, 726, 727, 728, 729, 730, 731, 733,
    734, 735, 736, 737, 738, 739, 740, 741, 743, 744, 745, 746, 747, 748, 749, 750,
    751, 752, 753, 754, 756, 757, 758, 759, 760, 761, 762, 763, 764, 765, 766, 767,
    768, 769, 770, 771, 772, 773, 774, 775, 776, 777, 778, 779, 780, 781, 782, 783,
    784, 785, 786, 787, 788, 789, 790, 791, 792, 793, 794, 795, 796, 796, 797, 798,
    799, 800, 801, 802, 803, 804, 805, 806, 807, 807, 808, 809, 810, 811, 812, 813,
    814, 814, 815, 816, 817, 818, 819, 820, 820, 821, 822, 823, 824, 825, 826, 826,
    827, 828, 829, 830, 830, 831, 832, 833, 834, 834, 835, 836, 837, 838, 838, 839,
    840, 841, 841, 842, 843, 844, 845, 845, 846, 847, 848, 848, 849, 850, 850, 851,
    852, 853, 853, 854, 855, 856, 856, 857, 858, 858, 859, 860, 860, 861, 862, 863,
    863, 864, 865, 865, 866, 867, 867, 868, 869, 869, 870, 871, 871, 872, 872, 873,
    874, 874, 875, 876, 876, 877, 877, 878, 879, 879, 880, 881, 881, 882, 882, 883,
    884, 884, 885, 885, 886, 886, 887, 888, 888, 889, 889, 890, 890, 891, 892, 892,
    893, 893, 894, 894, 895, 895, 896, 896, 897, 898, 898, 899, 899, 900, 900, 901,
    901, 902, 902, 903, 903, 904, 904, 905, 905, 906, 906, 907, 907, 908, 908, 909,
    909, 910, 910, 911, 911, 911, 912, 912, 913, 913, 914, 914, 915, 915, 916, 916,
    916, 917, 917, 918, 918, 919, 919, 919, 920, 920, 921, 921, 922, 922, 922, 923,
    923, 924, 924, 924, 925, 925, 926, 926, 926, 927, 927, 928, 928, 928, 929, 929,
    929, 930, 930, 931, 931, 931, 932, 932, 932, 933, 933, 934, 934, 934, 935, 935,
    935, 936, 936, 936, 937, 937, 937, 938, 938, 938, 939, 939, 939, 940, 940, 940,
    941, 941, 941, 942, 942, 942, 943, 943, 943, 943, 944, 944, 944, 945, 945, 945,
    946, 946, 946, 946, 947, 947, 947, 948, 948, 948, 948, 949, 949, 949, 950, 950,
    950, 950, 951, 951, 951, 951, 952, 952, 952, 953, 953, 953, 953, 954, 954, 954,
    954, 955, 955, 955, 955, 956, 956, 956, 956, 957, 957, 957, 957, 957, 958, 958,
    958, 958, 959, 959, 959, 959, 960, 960, 960, 960, 960, 961, 961, 961, 961, 962,
    962, 962, 962, 962, 963, 963, 963, 963, 963, 964, 964, 964, 964, 964, 965, 965,
    965, 965, 965, 966, 966, 966, 966, 966, 966, 967, 967, 967, 967, 967, 968, 968,
    968, 968, 968, 968, 969, 969, 969, 969, 969, 970, 970, 970, 970, 970, 970, 971,
    971, 971, 971, 971, 971, 971, 972, 972, 972, 972, 972, 972, 973, 973, 973, 973,
    973, 973, 973, 974, 974, 974, 974, 974, 974, 975, 975, 975, 975, 975, 975, 975,
    975, 976, 976, 976, 976, 976, 976, 976, 977, 977, 977, 977, 977, 977, 977, 977,
    978, 978, 978, 978, 978, 978, 978, 978, 979, 979, 979, 979, 979, 979, 979, 979,
    980, 980, 980, 980, 980, 980, 980, 980, 980, 981, 981, 981, 981, 981, 981, 981,
    981, 981, 982, 982, 982, 982, 982, 982, 982, 982, 982, 982, 983, 983, 983, 983,
    983, 983, 983, 983, 983, 983, 983, 984, 984, 984, 984, 984, 984, 984, 984, 984,
    984, 984, 985, 985, 985, 985, 985, 985, 985, 985, 985, 985, 985, 986, 986, 986,
    986, 986, 986, 986, 986, 986, 986, 986, 986, 986, 987, 987, 987, 987, 987, 987,
    987, 987, 987, 987, 987, 987, 987, 987, 988, 988, 988, 988, 988, 988, 988, 988,
    988, 988, 988, 988, 988, 988, 989, 989, 989, 989, 989, 989, 989, 989, 989, 989,
    989, 989, 989, 989, 989, 989, 990, 990, 990, 990, 990, 990, 990, 990, 990, 990,
    990, 990, 990, 990, 990, 990, 990, 990, 991, 991, 991, 991, 991, 991, 991, 991,
    991, 991, 991, 991, 991, 991, 991, 991, 991, 991, 991, 992, 992, 992, 992, 992,
    992, 992, 992, 992, 992, 992, 992, 992, 992, 992, 992, 992, 992, 992, 992, 992,
    992, 993, 993, 993, 993, 993, 993, 993, 993, 993, 993, 993, 993, 993, 993, 993,
    993, 993, 993, 993, 993, 993, 993, 993, 993, 993, 994, 994, 994, 994, 994, 994,
    994, 994, 994, 994, 994, 994, 994, 994, 994, 994, 994, 994, 994, 994, 994, 994,
    994, 994, 994, 994, 994, 994, 994, 995, 995, 995, 995, 995, 995, 995, 995, 995,
    995, 995, 995, 995, 995, 995, 995, 995, 995, 995, 995, 995, 995, 995, 995, 995,
    995, 995, 995, 995, 995, 995, 995, 995, 995, 995, 996, 996, 996, 996, 996, 996,
    996, 996, 996, 996, 996, 996, 996, 996, 996, 996, 996, 996, 996, 996, 996, 996,
    996, 996, 996, 996, 996, 996, 996, 996, 996, 996, 996, 996, 996, 996, 996, 996,
    996, 996, 996, 996, 996, 996, 997, 997, 997, 997, 997, 997, 997, 997, 997, 997,
    997, 997, 997, 997, 997, 997, 997, 997, 997, 997, 997, 997, 997, 997, 997, 997,
    997, 997, 997, 997, 997, 997, 997, 997, 997, 997, 997, 997, 997, 997, 997, 997,
    997, 997, 997, 997, 997, 997, 997, 997, 997, 997, 997, 997, 997, 997, 997, 997,
    997, 998, 998, 998, 998, 998, 998, 998, 998, 998, 998, 998, 998, 998, 998, 998,
    998, 998, 998, 998, 998, 998, 998, 998, 998, 998, 998, 998, 998, 998, 998, 998,
    998, 998, 998, 998, 998, 998, 998, 998, 998, 998, 998, 998, 998, 998, 998, 998,
    998, 998, 998, 998, 998, 998, 998, 998, 998, 998, 998, 998, 998, 998, 998, 998,
    998, 998, 998, 998, 998, 998, 998, 998, 998, 998, 998, 998, 998, 998, 998, 998,
    998, 998, 998, 998, 998, 998, 998, 998, 998, 998, 999, 999, 999, 999, 999, 999,
    999, 999, 999, 999, 999, 999, 999, 999, 999, 999, 999, 999, 999, 999, 999, 999,
    999, 999, 999, 999, 999, 999, 999, 999, 999, 999, 999, 999, 999, 999, 999, 999,
    999, 999, 999, 999, 999, 999, 999, 999, 999, 999, 999, 999, 999, 999, 999, 999,
    999, 999, 999, 999, 999, 999, 999, 999, 999, 999, 999, 999, 999, 999, 999, 999,
    999, 999, 999, 999, 999, 999, 999, 999, 999, 999, 999, 999, 999, 999, 999, 999,
    999, 999, 999, 999, 999, 999, 999, 999, 999, 999, 999, 999, 999, 999, 999, 999,
    999, 999, 999, 999, 999, 999, 999, 999, 999, 999, 999, 999, 999, 999, 999, 999,
    999, 999, 999, 999, 999, 999, 999, 999, 999, 999, 999, 999, 999, 999, 999, 999,
    999, 999, 999, 999, 999, 999, 999, 999, 999, 999, 999, 999, 999, 999, 999, 999,
    999, 999, 999, 999, 999, 999, 999, 999, 999, 999, 999, 999, 999, 999, 999, 999,
    999, 999, 999, 999, 999, 999, 999, 999, 999, 999, 999, 999, 999, 999, 999, 999,
    999, 999, 999, 999, 999, 999, 999, 999, 999, 1000
  >>

\* expected_win_prob: 1 / (1 + 10 ** ((rating_b - rating_a) / 400)), in
\* thousandths, the rating difference taken in whole points.
expected_win_prob(rating_a, rating_b) ==
  LET d == Abs(rating_a - rating_b) \div MICRO
      p == IF d + 1 > Len(ExpectedTab) THEN SCALE ELSE ExpectedTab[d + 1]
  IN IF rating_a >= rating_b THEN p ELSE SCALE - p

Min(a, b) == IF a <= b THEN a ELSE b

\* mov_multiplier that does not clamp.
mov_multiplier_unclamped(winner_score, loser_score, weight) ==
  LET total == winner_score + loser_score
  IN IF total = 0 THEN SCALE
     ELSE SCALE + (weight * 10 * (winner_score - loser_score)) \div total

\* mov_multiplier: 1 + weight * pct clamped to [0.5, 2.5], in thousandths;
\* 1.0 when no point was scored.
mov_multiplier(winner_score, loser_score, weight) ==
  LET total == winner_score + loser_score
  IN IF total = 0 THEN SCALE
     ELSE LET mult == SCALE + (weight * 10 * (winner_score - loser_score)) \div total
          IN Max(500, Min(2500, mult))

\* score_re.match(g['score'].strip()): <<TRUE, home_pts, away_pts>> for
\* "digits - digits" with any blanks around the dash.
ParseScore(score) ==
  CASE score = "2 - 0"   -> <<TRUE, 2, 0>>
    [] score = "1 - 2"   -> <<TRUE, 1, 2>>
    [] score = "1 - 1"   -> <<TRUE, 1, 1>>
    [] score = "0 - 0"   -> <<TRUE, 0, 0>>
    [] score = "80 - 20" -> <<TRUE, 80, 20>>
    [] score = "21-0"    -> <<TRUE, 21, 0>>
    [] score = " 0 - 3 " -> <<TRUE, 0, 3>>
    [] OTHER             -> <<FALSE, 0, 0>>

\* datetime.strptime(g['date'], '%m/%d/%Y'): <<TRUE, day>>, or ValueError.
\* The scraper writes the month and the day without leading zeros; strptime
\* takes both spellings.
ParseDate(date) ==
  CASE date = "1/4/2026"   -> <<TRUE, 4>>
    [] date = "1/5/2026"   -> <<TRUE, 5>>
    [] date = "1/6/2026"   -> <<TRUE, 6>>
    [] date = "01/04/2026" -> <<TRUE, 4>>
    [] date = "01/05/2026" -> <<TRUE, 5>>
    [] date = "01/06/2026" -> <<TRUE, 6>>
    [] OTHER               -> <<FALSE, 0>>

\* g['date'].strftime('%m/%d/%Y')
FormatDate(day) ==
  CASE day = 4 -> "01/04/2026"
    [] day = 5 -> "01/05/2026"
    [] day = 6 -> "01/06/2026"

\* One entry of data/games_data.json, as the scraper writes it.
RawGame(date, sport, home_team, away_team, score) ==
  [date |-> date, sport |-> sport, home_team |-> home_team,
   away_team |-> away_team, score |-> score]

\* The entries a game log is made of: games of three teams in four sports
\* on three days, one date written with leading zeros, an entry whose score
\* column holds the status and one whose date is not in the format.
RawGames ==
  {RawGame("1/5/2026",   "Cornhole", "A", "B", "2 - 0"),
   RawGame("01/05/2026", "Cornhole", "B", "A", "1 - 2"),
   RawGame("1/4/2026",   "Cornhole", "A", "C", "1 - 1"),
   RawGame("1/4/2026",   "Cornhole", "C", "B", "0 - 0"),
   RawGame("1/6/2026",   "5v5 Basketball", "A", "B", "80 - 20"),
   RawGame("1/4/2026",   "5v5 Basketball", "C", "A", "21-0"),
   RawGame("1/6/2026",   "Basketball/Dodgeball", "B", "C", "2 - 0"),
   RawGame("1/6/2026",   "Soccer", "C", "A", " 0 - 3 "),
   RawGame("1/5/2026",   "Cornhole", "A", "B", "FINAL"),
   RawGame("2026-01-05", "Cornhole", "B", "C", "2 - 0")}

\* The loop of load_games before the sort: the entries whose score and date
\* parse, in the order of the file.
RECURSIVE ParsedGames(_)
ParsedGames(raw) ==
  IF raw = <<>> THEN <<>>
  ELSE LET g == Head(raw)
           m == ParseScore(g.score)
           date == ParseDate(g.date)
       IN IF ~m[1] \/ ~date[1] THEN ParsedGames(Tail(raw))
          ELSE <<[date |-> date[2], sport |-> g.sport,
                  home_team |-> g.home_team, away_team |-> g.away_team,
                  home_pts |-> m[2], away_pts |-> m[3]]>>
               \o ParsedGames(Tail(raw))

\* list.sort(key=date) is stable: g goes after every game that is not later.
RECURSIVE InsertByDate(_, _)
InsertByDate(sorted, g) ==
  IF sorted = <<>> THEN <<g>>
  ELSE IF Head(sorted).date <= g.date
       THEN <<Head(sorted)>> \o InsertByDate(Tail(sorted), g)
       ELSE <<g>> \o sorted

RECURSIVE SortByDate(_)
SortByDate(games) ==
  IF games = <<>> THEN <<>>
  ELSE InsertByDate(SortByDate(SubSeq(games, 1, Len(games) - 1)),
                    games[Len(games)])

\* load_games that returns the games in the order of the file.
load_games_unsorted(raw) == ParsedGames(raw)

\* load_games
load_games(raw) == SortByDate(ParsedGames(raw))

\* elo[sport][team] and record[sport][team] of the defaultdicts: the stored
\* value, or the default.
RatingOf(elo, sport, team) ==
  IF <<sport, team>> \in DOMAIN elo THEN elo[<<sport, team>>] ELSE BASE_ELO * MICRO

RecordOf(record, sport, team) ==
  IF <<sport, team>> \in DOMAIN record THEN record[<<sport, team>>]
  ELSE [wins |-> 0, losses |-> 0, ties |-> 0, games |-> 0]

\* d[sport][team] = value
Store(d, sport, team, value) ==
  [key \in DOMAIN d \cup {<<sport, team>>} |->
     IF key = <<sport, team>> THEN value ELSE d[key]]

\* round(x, 1) on a rating: to the nearest tenth of a point, a tie going to
\* the even tenth.
Round1(x) ==
  LET unit == MICRO \div 10
      q == x \div unit
      r == x % unit
  IN IF 2 * r > unit \/ (2 * r = unit /\ q % 2 = 1) THEN (q + 1) * unit
     ELSE q * unit

\* new = r + k * (s - exp) where the loser's loss is halved.
RatingUpdateSoftLoss(r, k, s, exp) ==
  IF s < exp THEN r + (k * (s - exp)) \div 2 ELSE r + k * (s - exp)

\* new = r + k * (s - exp), k in thousandths of a point, s and exp in
\* thousandths.
RatingUpdate(r, k, s, exp) == r + k * (s - exp)

\* The state of compute_elo before its first game.
NoRatings ==
  [elo |-> [key \in {} |-> 0], history |-> <<>>, record |-> [key \in {} |-> 0],
   mult |-> 0, mov_w |-> 0, k_base |-> 0]

\* One iteration of the loop of compute_elo, on game g; mult, mov_w and
\* k_base are the locals it leaves.
ComputeGame(st, g) ==
  LET sport  == g.sport
      home   == g.home_team
      away   == g.away_team
      hp     == g.home_pts
      ap     == g.away_pts
      cfg    == get_sport_config(sport)
      k_base == cfg.k_base
      mov_w  == cfg.mov_weight
      r_home == RatingOf(st.elo, sport, home)
      r_away == RatingOf(st.elo, sport, away)
      exp_home == expected_win_prob(r_home, r_away)
      exp_away == SCALE - exp_home
      s_home == IF hp > ap THEN SCALE ELSE IF ap > hp THEN 0 ELSE SCALE \div 2
      s_away == SCALE - s_home
      mult   == IF hp > ap THEN mov_multiplier(hp, ap, mov_w)
                ELSE IF ap > hp THEN mov_multiplier(ap, hp, mov_w)
                ELSE SCALE
      k      == k_base * mult
      new_home == RatingUpdate(r_home, k, s_home, exp_home)
      new_away == RatingUpdate(r_away, k, s_away, exp_away)
      rec_home == RecordOf(st.record, sport, home)
      home_after ==
        [rec_home EXCEPT !.games = @ + 1,
                         !.wins = IF hp > ap THEN @ + 1 ELSE @,
                         !.losses = IF ap > hp THEN @ + 1 ELSE @,
                         !.ties = IF hp = ap THEN @ + 1 ELSE @]
      record1  == Store(st.record, sport, home, home_after)
      rec_away == RecordOf(record1, sport, away)
      away_after ==
        [rec_away EXCEPT !.games = @ + 1,
                         !.wins = IF ap > hp THEN @ + 1 ELSE @,
                         !.losses = IF hp > ap THEN @ + 1 ELSE @,
                         !.ties = IF hp = ap THEN @ + 1 ELSE @]
  IN [elo |-> Store(Store(st.elo, sport, home, new_home), sport, away, new_away),
      history |-> Append(st.history,
                    [date |-> FormatDate(g.date), sport |-> sport,
                     home_team |-> home, away_team |-> away,
                     home_pts |-> hp, away_pts |-> ap,
                     home_elo_pre |-> Round1(r_home), away_elo_pre |-> Round1(r_away),
                     home_elo_post |-> Round1(new_home),
                     away_elo_post |-> Round1(new_away),
                     home_exp |-> exp_home, away_exp |-> exp_away]),
      record |-> Store(record1, sport, away, away_after),
      mult |-> mult, mov_w |-> mov_w, k_base |-> k_base]

\* compute_elo: the loop over the games.
RECURSIVE compute_elo(_, _)
compute_elo(st, games) ==
  IF games = <<>> THEN st
  ELSE compute_elo(ComputeGame(st, Head(games)), Tail(games))

\* ------------------------------------------------------------------ state
VARIABLES
  now,        \* datetime.now(), as an instant
  balance,    \* users table: user id -> balance
  markets,    \* markets table: market_id -> row, for the markets created so far
  positions,  \* positions table: <<user id, market_id>> -> row
  req,        \* per request slot: where the trade request is, and the user row it read
  resp,       \* what the trade handler that ran in the last step returned
  portfolio,  \* the Portfolio that get_user_portfolio returned in the last step
  ledger,     \* history: per market, the shares and costs of the trades applied
  debited,    \* history: per user, the costs of the trades applied
  ntrades,    \* history: number of trade requests accepted so far
  games_data, \* data/games_data.json: the game log the rating engine reads
  engine      \* a run of elo_ratings.py: its position and its locals

\* The variables of the server and those of the rating engine.
server_vars ==
  <<now, balance, markets, positions, req, resp, portfolio, ledger, debited, ntrades>>

engine_vars == <<games_data, engine>>

vars == <<now, balance, markets, positions, req, resp, portfolio, ledger, debited,
          ntrades, games_data, engine>>

NoUser == 0

\* saw is history: the markets on which a trade was applied while this
\* request was in flight.
IdleReq == [pc |-> "idle", id |-> NoUser, balance |-> 0, saw |-> {}]

NoResponse ==
  [result |-> "none", applied |-> FALSE, user |-> NoUser, market_id |-> "",
   outcome |-> "", amount |-> 0, shares |-> 0, cost |-> 0,
   home_before |-> 0, away_before |-> 0, volume_before |-> 0,
   overlapped |-> FALSE]

NoPortfolio ==
  [user_id |-> NoUser, balance |-> 0, open_positions |-> {}, settled_positions |-> {}]

\* The rating engine is a script of its own; while the server is looked at,
\* no run of it is in progress.
NoRun ==
  [pc |-> "none", games |-> <<>>, i |-> 0,
   elo |-> NoRatings.elo, history |-> NoRatings.history,
   record |-> NoRatings.record, mult |-> 0, mov_w |-> 0, k_base |-> 0]

\* The server after startup: every account that exists has its starting
\* balance, and there is no market, position or request yet.
ServerInit ==
  /\ now = 0
  /\ balance = [u \in Users |-> STARTING_BALANCE]
  /\ markets = [id \in {} |-> 0]
  /\ positions = [k \in {} |-> 0]
  /\ req = [r \in Reqs |-> IdleReq]
  /\ resp = NoResponse
  /\ portfolio = NoPortfolio
  /\ ledger = [id \in MarketIds |-> [home |-> 0, away |-> 0, cost |-> 0]]
  /\ debited = [u \in Users |-> 0]
  /\ ntrades = 0

Init ==
  /\ games_data = <<>>
  /\ engine = NoRun
  /\ ServerInit

\* Time passes.
Tick ==
  /\ now < MaxTime
  /\ now' = now + 1
  /\ resp' = NoResponse
  /\ portfolio' = NoPortfolio
  /\ UNCHANGED <<balance, markets, positions, req, ledger, debited, ntrades,
                 games_data, engine>>

\* A lifecycle pass: get_markets, refresh_games and _refresh_loop all call
\* create_markets_from_games with the feed they hold.
LifecyclePass(games) ==
  /\ markets' = create_markets_from_games(markets, games, now)
  /\ resp' = NoResponse
  /\ portfolio' = NoPortfolio
  /\ UNCHANGED <<now, balance, positions, req, ledger, debited, ntrades,
                 games_data, engine>>

\* get_current_user: the dependency of a trade request resolves the bearer
\* token to a user row (None without a valid token) before the handler runs.
\* A new request takes the lowest free slot.
get_current_user(r, u) ==
  /\ req[r].pc = "idle"
  /\ \A q \in Reqs : q < r => req[q].pc # "idle"
  /\ ntrades < MaxTrades
  /\ req' = [req EXCEPT ![r] =
               [pc |-> "authed", id |-> u,
                balance |-> IF u = NoUser THEN 0 ELSE balance[u],
                saw |-> {}]]
  /\ ntrades' = ntrades + 1
  /\ resp' = NoResponse
  /\ portfolio' = NoPortfolio
  /\ UNCHANGED <<now, balance, markets, positions, ledger, debited,
                 games_data, engine>>

\* Fields of the Position response model (lines 113-121); all are required.
PositionFields ==
  {"market_id", "game", "home_shares", "away_shares",
   "avg_home_price", "avg_away_price", "potential_payout"}

\* Position(**kwargs) validates: every required field must be supplied.
PositionValidates(supplied) == PositionFields \subseteq supplied

\* The keyword arguments execute_trade passes to Position (lines 718-727).
TradePositionArgs ==
  {"market_id", "game", "home_shares", "away_shares",
   "avg_home_price", "avg_away_price", "current_value", "potential_return"}

\* The keyword arguments get_user_portfolio passes to Position (lines 459-467).
PortfolioPositionArgs ==
  {"market_id", "game", "home_shares", "away_shares",
   "avg_home_price", "avg_away_price", "potential_payout"}

\* price * shares of lines 689-690, price in thousandths of a token per share
\* and shares in thousandths: the product in thousandths of a token, rounded
\* down, taken in two parts so that no intermediate value leaves 32 bits.
CostOf(price, shares) ==
  price * (shares \div SCALE) + (price * (shares % SCALE)) \div SCALE

\* total / shares of lines 695 and 699, in thousandths of a token per share,
\* rounded down: long division, one decimal digit at a time.
PricePerShare(total, shares) ==
  LET r0 == total % shares
      d1 == (r0 * 10) \div shares
      r1 == (r0 * 10) % shares
      d2 == (r1 * 10) \div shares
      r2 == (r1 * 10) % shares
      d3 == (r2 * 10) \div shares
  IN (total \div shares) * SCALE + d1 * 100 + d2 * 10 + d3

\* PositionBefore that does not read the stored row.
PositionBeforeFresh(user_id, market_id) ==
  [home_shares |-> 0, away_shares |-> 0,
   avg_home_price |-> 0, avg_away_price |-> 0,
   total_home_cost |-> 0, total_away_cost |-> 0]

\* db.get_position, with the row execute_trade starts from when there is none
\* (lines 677-690): shares, average prices and the running cost totals.
PositionBefore(user_id, market_id) ==
  IF <<user_id, market_id>> \in DOMAIN positions
  THEN LET p == positions[<<user_id, market_id>>]
       IN [home_shares |-> p.home_shares, away_shares |-> p.away_shares,
           avg_home_price |-> p.avg_home_price, avg_away_price |-> p.avg_away_price,
           total_home_cost |-> CostOf(p.avg_home_price, p.home_shares),
           total_away_cost |-> CostOf(p.avg_away_price, p.away_shares)]
  ELSE [home_shares |-> 0, away_shares |-> 0,
        avg_home_price |-> 0, avg_away_price |-> 0,
        total_home_cost |-> 0, total_away_cost |-> 0]

\* PositionAfter that takes the price of this purchase as the average price.
PositionAfterLastPrice(position, outcome, shares_to_buy, actual_cost) ==
  IF outcome = "home"
  THEN [home_shares |-> position.home_shares + shares_to_buy,
        away_shares |-> position.away_shares,
        avg_home_price |-> PricePerShare(actual_cost, shares_to_buy),
        avg_away_price |-> position.avg_away_price]
  ELSE [home_shares |-> position.home_shares,
        away_shares |-> position.away_shares + shares_to_buy,
        avg_home_price |-> position.avg_home_price,
        avg_away_price |-> PricePerShare(actual_cost, shares_to_buy)]

\* Lines 692-699: the position after buying shares_to_buy of outcome.
PositionAfter(position, outcome, shares_to_buy, actual_cost) ==
  IF outcome = "home"
  THEN LET shares == position.home_shares + shares_to_buy
           total  == position.total_home_cost + actual_cost
       IN [home_shares |-> shares, away_shares |-> position.away_shares,
           avg_home_price |-> IF shares > 0 THEN PricePerShare(total, shares) ELSE 0,
           avg_away_price |-> position.avg_away_price]
  ELSE LET shares == position.away_shares + shares_to_buy
           total  == position.total_away_cost + actual_cost
       IN [home_shares |-> position.home_shares, away_shares |-> shares,
           avg_home_price |-> position.avg_home_price,
           avg_away_price |-> IF shares > 0 THEN PricePerShare(total, shares) ELSE 0]

\* MarketAfter that leaves the stored prices as they were.
MarketAfterStalePrices(market, outcome, shares_to_buy, actual_cost) ==
  LET home_shares == IF outcome = "home" THEN market.home_shares + shares_to_buy
                     ELSE market.home_shares
      away_shares == IF outcome = "home" THEN market.away_shares
                     ELSE market.away_shares + shares_to_buy
  IN [market EXCEPT !.home_shares = home_shares,
                    !.away_shares = away_shares,
                    !.total_volume = market.total_volume + actual_cost]

\* MarketAfter with the purchase assigned to the side's total instead of
\* added to it.
MarketAfterOverwrite(market, outcome, shares_to_buy, actual_cost) ==
  LET home_shares == IF outcome = "home" THEN shares_to_buy
                     ELSE market.home_shares
      away_shares == IF outcome = "home" THEN market.away_shares
                     ELSE shares_to_buy
      price == calculate_lmsr_price(home_shares, away_shares)
  IN [market EXCEPT !.home_shares = home_shares,
                    !.away_shares = away_shares,
                    !.total_volume = market.total_volume + actual_cost,
                    !.home_price = Round2(price[1]),
                    !.away_price = Round2(price[2])]

\* MarketAfter that also stores the side bought as the winner.
MarketAfterWinnerSet(market, outcome, shares_to_buy, actual_cost) ==
  LET home_shares == IF outcome = "home" THEN market.home_shares + shares_to_buy
                     ELSE market.home_shares
      away_shares == IF outcome = "home" THEN market.away_shares
                     ELSE market.away_shares + shares_to_buy
      price == calculate_lmsr_price(home_shares, away_shares)
  IN [market EXCEPT !.home_shares = home_shares,
                    !.away_shares = away_shares,
                    !.total_volume = market.total_volume + actual_cost,
                    !.winner = outcome,
                    !.home_price = Round2(price[1]),
                    !.away_price = Round2(price[2])]

\* Lines 661-671: the market row after the purchase.
MarketAfter(market, outcome, shares_to_buy, actual_cost) ==
  LET home_shares == IF outcome = "home" THEN market.home_shares + shares_to_buy
                     ELSE market.home_shares
      away_shares == IF outcome = "home" THEN market.away_shares
                     ELSE market.away_shares + shares_to_buy
      price == calculate_lmsr_price(home_shares, away_shares)
  IN [market EXCEPT !.home_shares = home_shares,
                    !.away_shares = away_shares,
                    !.total_volume = market.total_volume + actual_cost,
                    !.home_price = Round2(price[1]),
                    !.away_price = Round2(price[2])]

\* raise HTTPException(...): the handler ends here.
Reject(r, trade, detail) ==
  /\ resp' = [NoResponse EXCEPT !.result = detail, !.user = req[r].id,
                                !.market_id = trade.market_id,
                                !.outcome = trade.outcome,
                                !.amount = trade.amount,
                                !.overlapped = trade.market_id \in req[r].saw]
  /\ req' = [req EXCEPT ![r] = IdleReq]
  /\ portfolio' = NoPortfolio
  /\ UNCHANGED <<now, balance, markets, positions, ledger, debited, ntrades,
                 games_data, engine>>

\* Lines 657-741: the writes of a trade and its response.
ApplyTrade(r, user, market, outcome, amount, shares_to_buy, actual_cost) ==
  LET position == PositionBefore(user.id, market.market_id)
      id == market.market_id
  IN /\ balance' = update_user_balance(balance, user.id, user.balance - actual_cost)
     /\ markets' = upsert_market(markets,
                     MarketAfter(market, outcome, shares_to_buy, actual_cost))
     /\ positions' = upsert_position(positions, user.id, id,
                       PositionAfter(position, outcome, shares_to_buy, actual_cost))
     /\ resp' =
          [result |-> IF PositionValidates(TradePositionArgs)
                      THEN "Success" ELSE "Internal Server Error",
           applied |-> TRUE, user |-> user.id, market_id |-> id,
           outcome |-> outcome, amount |-> amount,
           shares |-> shares_to_buy, cost |-> actual_cost,
           home_before |-> market.home_shares,
           away_before |-> market.away_shares,
           volume_before |-> market.total_volume,
           overlapped |-> id \in user.saw]
     /\ ledger' = [ledger EXCEPT
          ![id].home = @ + (IF outcome = "home" THEN shares_to_buy ELSE 0),
          ![id].away = @ + (IF outcome = "home" THEN 0 ELSE shares_to_buy),
          ![id].cost = @ + actual_cost]
     /\ debited' = [debited EXCEPT ![user.id] = @ + actual_cost]
     /\ req' = [q \in Reqs |->
                  IF q = r THEN IdleReq
                  ELSE IF req[q].pc = "authed"
                       THEN [req[q] EXCEPT !.saw = @ \cup {id}]
                       ELSE req[q]]
     /\ portfolio' = NoPortfolio
     /\ UNCHANGED <<now, ntrades,
                    games_data, engine>>

\* TradeRequest(...) is the body of one POST /api/trade.
TradeRequest(market_id, outcome, amount) ==
  [market_id |-> market_id, outcome |-> outcome, amount |-> amount]

\* The trade requests of the clients.  The first user sends 50 tokens on
\* either side of the first market or on the home side of the second, and
\* three requests that are not valid (an unknown outcome, no budget, a budget
\* above any balance); the second user sends 50 tokens or the whole starting
\* balance; the client without a token sends one request.
TradeRequestsOf(user_id) ==
  IF user_id = 1
  THEN {TradeRequest(MarketIdOf("g1"), "home", 50 * SCALE),
        TradeRequest(MarketIdOf("g1"), "away", 50 * SCALE),
        TradeRequest(MarketIdOf("g2"), "home", 50 * SCALE),
        TradeRequest(MarketIdOf("g1"), "draw", 50 * SCALE),
        TradeRequest(MarketIdOf("g1"), "home", 0),
        TradeRequest(MarketIdOf("g1"), "home", STARTING_BALANCE + SCALE)}
  ELSE IF user_id = 2
  THEN {TradeRequest(MarketIdOf("g1"), "away", 50 * SCALE),
        TradeRequest(MarketIdOf("g1"), "home", STARTING_BALANCE)}
  ELSE {TradeRequest(MarketIdOf("g1"), "home", 50 * SCALE)}

TradeRequests == UNION {TradeRequestsOf(u) : u \in Users \cup {NoUser}}

\* MarketIsOpen that refuses only settled markets.
MarketIsNotSettled(market) == market.status # "settled"

\* Line 608: the market accepts predictions.
MarketIsOpen(market) == market.status = "open"

\* execute_trade: the handler body, from the authentication check to the
\* response.  trade is the TradeRequest.
execute_trade(r, trade) ==
  /\ req[r].pc = "authed"
  /\ trade \in TradeRequestsOf(req[r].id)
  /\ LET user == req[r]
         outcome == trade.outcome
         amount == trade.amount
     IN IF user.id = NoUser THEN Reject(r, trade, "Not authenticated")
        ELSE IF trade.market_id \notin DOMAIN markets
             THEN Reject(r, trade, "Market not found")
        ELSE LET market == markets[trade.market_id]
             IN IF ~MarketIsOpen(market) THEN Reject(r, trade, "Market not open")
                ELSE IF outcome \notin {"home", "away"}
                     THEN Reject(r, trade, "Invalid outcome")
                ELSE IF amount <= 0 THEN Reject(r, trade, "Amount must be positive")
                ELSE IF user.balance < amount
                     THEN Reject(r, trade, "Insufficient balance")
                ELSE LET current_outcome_shares ==
                           IF outcome = "home" THEN market.home_shares
                           ELSE market.away_shares
                         other_shares ==
                           IF outcome = "home" THEN market.away_shares
                           ELSE market.home_shares
                     IN \E shares_to_buy \in
                             {SolveShares(amount, current_outcome_shares, other_shares)} :
                        \E actual_cost \in
                             {calculate_cost(current_outcome_shares,
                                             current_outcome_shares + shares_to_buy,
                                             other_shares)} :
                          IF shares_to_buy <= 0
                          THEN Reject(r, trade, "Amount too small")
                          ELSE ApplyTrade(r, user, market, outcome, amount,
                                          shares_to_buy, actual_cost)

\* Lines 445-457: potential_payout of a joined position/market row.
PotentialPayout(home_shares, away_shares, status, winner) ==
  IF status = "settled"
  THEN IF winner = "home" THEN home_shares
       ELSE IF winner = "away" THEN away_shares
       ELSE 0
  ELSE Max(home_shares, away_shares)

\* db.get_user_positions: the user's positions with shares, joined with
\* their markets.
get_user_positions(user_id) ==
  {k \in DOMAIN positions :
     /\ k[1] = user_id
     /\ k[2] \in DOMAIN markets
     /\ (positions[k].home_shares > 0 \/ positions[k].away_shares > 0)}

\* The Position get_user_portfolio builds for one joined row.
PortfolioPosition(k) ==
  [market_id |-> k[2],
   home_shares |-> positions[k].home_shares,
   away_shares |-> positions[k].away_shares,
   avg_home_price |-> positions[k].avg_home_price,
   avg_away_price |-> positions[k].avg_away_price,
   potential_payout |->
     Round2(PotentialPayout(positions[k].home_shares, positions[k].away_shares,
                            markets[k[2]].status, markets[k[2]].winner))]

\* get_user_portfolio: balance and the open and settled positions of a user.
get_user_portfolio(user_id) ==
  /\ PositionValidates(PortfolioPositionArgs)
  /\ LET rows == {k \in get_user_positions(user_id) :
                    ~(positions[k].home_shares = 0 /\ positions[k].away_shares = 0)}
     IN portfolio' =
          [user_id |-> user_id,
           balance |-> Round2(balance[user_id]),
           open_positions |->
             {PortfolioPosition(k) : k \in {j \in rows : markets[j[2]].status # "settled"}},
           settled_positions |->
             {PortfolioPosition(k) : k \in {j \in rows : markets[j[2]].status = "settled"}}]
  /\ resp' = NoResponse
  /\ UNCHANGED <<now, balance, markets, positions, req, ledger, debited, ntrades,
                 games_data, engine>>

\* The game logs the engine is run on: up to MaxGames entries in any order.
GameLogs == UNION {[1..n -> RawGames] : n \in 0..MaxGames}

\* games = load_games()
LoadGames ==
  /\ engine.pc = "start"
  /\ engine' = [engine EXCEPT !.pc = "computing", !.games = load_games(games_data)]
  /\ UNCHANGED games_data
  /\ UNCHANGED server_vars

\* One iteration of the loop of compute_elo.
ComputeEloStep ==
  /\ engine.pc = "computing"
  /\ engine.i < Len(engine.games)
  /\ \E st \in {ComputeGame([elo |-> engine.elo, history |-> engine.history,
                              record |-> engine.record, mult |-> engine.mult,
                              mov_w |-> engine.mov_w, k_base |-> engine.k_base],
                             engine.games[engine.i + 1])} :
       engine' = [pc |-> "computing", games |-> engine.games, i |-> engine.i + 1,
                  elo |-> st.elo, history |-> st.history, record |-> st.record,
                  mult |-> st.mult, mov_w |-> st.mov_w, k_base |-> st.k_base]
  /\ UNCHANGED games_data
  /\ UNCHANGED server_vars

\* return elo, history, record
ComputeEloReturn ==
  /\ engine.pc = "computing"
  /\ engine.i = Len(engine.games)
  /\ engine' = [engine EXCEPT !.pc = "done"]
  /\ UNCHANGED games_data
  /\ UNCHANGED server_vars

Next ==
  \/ Tick
  \/ \E game \in Fixtures : LifecyclePass(<<game>>)
  \/ \E r \in Reqs, u \in Users \cup {NoUser} : get_current_user(r, u)
  \/ \E r \in Reqs, trade \in TradeRequests : execute_trade(r, trade)
  \/ \E u \in Users : get_user_portfolio(u)

Spec == Init /\ [][Next]_vars

\* _refresh_loop sleeps and runs a pass for ever, and uvicorn runs every
\* handler it has started to its return.  The two recurrence conjuncts are
\* the fairness of the refresh loop and of the handlers, stated on what
\* happens rather than on ENABLED: a pass is taken again and again, and
\* again and again no request is left waiting.  Each implies weak fairness
\* of its action.
FairSpec ==
  /\ Init
  /\ [][Next]_vars
  /\ WF_vars(Tick)
  /\ []<><<\E game \in Fixtures : LifecyclePass(<<game>>)>>_vars
  /\ []<>(\A r \in Reqs : req[r] = IdleReq)

\* ------------------------------------------------------ seeding of markets
\* One Game of a feed of scheduled matchups between teams of every kind of
\* rating.
SeedFixture(g, home_team, away_team) ==
  [game_id |-> g, home_team |-> home_team, away_team |-> away_team,
   sport |-> "Soccer", status |-> "scheduled", home_score |-> "--",
   away_score |-> "--", time |-> "7:00 PM", date |-> "01/05/2026"]

\* The feed: the rated favourite at home and away, a team rated at the base
\* rating against an unknown one, two unknown teams, a one-point favourite at
\* home and away, and a heavy favourite away.
SeedFixtures ==
  {SeedFixture("s1", "Alpha", "Epsilon"),
   SeedFixture("s2", "Epsilon", "Alpha"),
   SeedFixture("s3", "Epsilon", "Omega"),
   SeedFixture("s4", "Sigma", "Omega"),
   SeedFixture("s5", "Zeta", "Epsilon"),
   SeedFixture("s6", "Omega", "Zeta"),
   SeedFixture("s7", "Eta", "Alpha")}

\* The lifecycle passes over that feed, with nobody trading.
SeedNext ==
  \/ Tick
  \/ \E game \in SeedFixtures : LifecyclePass(<<game>>)

SeedSpec == Init /\ [][SeedNext]_vars

\* ------------------------------------------------ markets with large totals
\* Registration is open and every account starts with STARTING_BALANCE, so
\* the share total of a side grows with the number of customers who stake on
\* it.  StakedMarket(n) is the first market after n customers, who are not
\* among Users, have each staked a whole starting balance on its home side,
\* one trade after the other through execute_trade.
RECURSIVE StakedMarket(_)
StakedMarket(n) ==
  IF n = 0
  THEN NewMarket(Fixture("g1", "scheduled", "--", "--", "7:00 PM", "01/05/2026"),
                 [status |-> "open", winner |-> "None"])
  ELSE LET market == StakedMarket(n - 1)
           shares_to_buy == SolveShares(STARTING_BALANCE, market.home_shares,
                                        market.away_shares)
           actual_cost == calculate_cost(market.home_shares,
                                         market.home_shares + shares_to_buy,
                                         market.away_shares)
       IN MarketAfter(market, "home", shares_to_buy, actual_cost)

\* The state after the first lifecycle pass and the stakes of up to MaxStakes
\* such customers.
StakedInit ==
  \E n \in 0..MaxStakes :
    \E market \in {StakedMarket(n)} :
      /\ games_data = <<>>
      /\ engine = NoRun
      /\ now = 0
      /\ balance = [u \in Users |-> STARTING_BALANCE]
      /\ markets = create_markets_from_games(
                     upsert_market([id \in {} |-> 0], market),
                     <<Fixture("g1", "scheduled", "--", "--", "7:00 PM", "01/05/2026"),
                       Fixture("g2", "scheduled", "--", "--", "7:00 PM", "01/05/2026")>>,
                     0)
      /\ positions = [k \in {} |-> 0]
      /\ req = [r \in Reqs |-> IdleReq]
      /\ resp = NoResponse
      /\ portfolio = NoPortfolio
      /\ ledger = [id \in MarketIds |->
                     IF id = market.market_id
                     THEN [home |-> market.home_shares - StakedMarket(0).home_shares,
                           away |-> 0,
                           cost |-> market.total_volume - StakedMarket(0).total_volume]
                     ELSE [home |-> 0, away |-> 0, cost |-> 0]]
      /\ debited = [u \in Users |-> 0]
      /\ ntrades = 0

\* The trade requests of Users on those markets.
StakedNext ==
  \/ \E r \in Reqs, u \in Users \cup {NoUser} : get_current_user(r, u)
  \/ \E r \in Reqs, trade \in TradeRequests : execute_trade(r, trade)

StakedSpec == StakedInit /\ [][StakedNext]_vars

\* ------------------------------------------------- a run of the rating engine
\* python elo_ratings.py on a game log, with the server left as it started.
EloInit ==
  /\ games_data \in GameLogs
  /\ engine = [NoRun EXCEPT !.pc = "start"]
  /\ ServerInit

EloNext ==
  \/ LoadGames
  \/ ComputeEloStep
  \/ ComputeEloReturn

EloSpec == EloInit /\ [][EloNext]_vars

\* ----------------------------------------------------------------- claims
\* The seed of a market: what get_elo_seeded_shares gave when it was created.
SeedOf(id) ==
  LET g == markets[id].game_id
  IN get_elo_seeded_shares(HomeTeam(g), AwayTeam(g), "Soccer")

\* A trade handler ran in the step that led to this state.
TradeReturned == resp.result # "none"

\* C1: trades on a market are serialised, also when their requests overlap:
\* each trade's solver read the totals left by all earlier trades, so the
\* market's share totals are the seed plus the shares of every applied trade
\* and its volume is the seed volume plus every applied cost.
C1_TradesSerialised ==
  /\ \A id \in DOMAIN markets :
       /\ markets[id].home_shares = SeedOf(id).home_shares + ledger[id].home
       /\ markets[id].away_shares = SeedOf(id).away_shares + ledger[id].away
       /\ markets[id].total_volume = SeedOf(id).initial_volume + ledger[id].cost
  /\ resp.applied =>
       LET id == resp.market_id
           home_bought == IF resp.outcome = "home" THEN resp.shares ELSE 0
           away_bought == IF resp.outcome = "home" THEN 0 ELSE resp.shares
       IN /\ resp.home_before + home_bought = SeedOf(id).home_shares + ledger[id].home
          /\ resp.away_before + away_bought = SeedOf(id).away_shares + ledger[id].away
          /\ resp.volume_before + resp.cost = SeedOf(id).initial_volume + ledger[id].cost

\* Two requests were in flight together and both traded on the same market.
C1_Witness ==
  /\ resp.applied
  /\ resp.overlapped
  /\ ledger[resp.market_id].cost > resp.cost

\* C2: a trade is all-or-nothing: a call that returns an error has changed
\* neither the balance nor the market nor the position, and a call that
\* changed any of them returned success.
C2_AllOrNothing ==
  [][TradeReturned' =>
       /\ (resp'.result # "Success") =>
            (balance' = balance /\ markets' = markets /\ positions' = positions)
       /\ (resp'.result = "Success") =>
            (markets' # markets /\ positions' # positions)]_vars

\* A trade handler ran for an authenticated user in this step.
TradeStepOf(r) ==
  /\ req[r].pc = "authed"
  /\ req'[r].pc = "idle"
  /\ req[r].id # NoUser

C4_StatusOneWay ==
  [][\A id \in DOMAIN markets :
       /\ markets[id].status = "settled" => markets'[id].status = "settled"
       /\ markets[id].status = "closed" => markets'[id].status # "open"]_vars

\* Both stored scores are integers.
ScoresParse(market) ==
  IsIntString(market.home_score) /\ IsIntString(market.away_score)

\* The stored scores are integers and equal.
TiedScore(market) ==
  ScoresParse(market) /\ IntOf(market.home_score) = IntOf(market.away_score)

\* C5: a settled market has winner 'home' exactly when the home score is the
\* greater integer, 'away' exactly when the away score is the greater
\* integer, and no winner when the scores are equal or are not integers.
C5_WinnerByScore ==
  \A id \in DOMAIN markets :
    LET market == markets[id]
    IN market.status = "settled" =>
         /\ market.winner = "home" <=>
              (ScoresParse(market)
               /\ IntOf(market.home_score) > IntOf(market.away_score))
         /\ market.winner = "away" <=>
              (ScoresParse(market)
               /\ IntOf(market.away_score) > IntOf(market.home_score))
         /\ (TiedScore(market) \/ ~ScoresParse(market)) => market.winner = "None"

\* C6: in a portfolio, the payout of a position in a settled market is its
\* share count on the winning side (to the cent), 0 when the market has no
\* winner, and 0 on either side when the market settled on a tied score.
C6_SettledPayout ==
  \A position \in portfolio.settled_positions :
    LET market == markets[position.market_id]
    IN /\ TiedScore(market) => position.potential_payout = 0
       /\ ~TiedScore(market) =>
            position.potential_payout =
              Round2(IF market.winner = "home" THEN position.home_shares
                     ELSE IF market.winner = "away" THEN position.away_shares
                     ELSE 0)

\* The winning-side shares of a user in a market, 0 unless it is settled
\* with a winner.
WinningShares(u, id) ==
  IF <<u, id>> \in DOMAIN positions /\ id \in DOMAIN markets
  THEN IF markets[id].status = "settled" /\ markets[id].winner = "home"
       THEN positions[<<u, id>>].home_shares
       ELSE IF markets[id].status = "settled" /\ markets[id].winner = "away"
            THEN positions[<<u, id>>].away_shares
            ELSE 0
  ELSE 0

RECURSIVE WinningsOver(_, _)
WinningsOver(u, ids) ==
  IF ids = {} THEN 0
  ELSE LET id == CHOOSE x \in ids : TRUE
       IN WinningShares(u, id) + WinningsOver(u, ids \ {id})

\* The balance of u is what it started with, less the cost of its trades, plus
\* one token per winning share.
PaidOut(u) ==
  balance[u] = STARTING_BALANCE - debited[u] + WinningsOver(u, MarketIds)

\* C7: a user who holds winning shares of a settled market is eventually
\* paid one token per winning share.
C7_WinnersPaid ==
  \A u \in Users : (WinningsOver(u, MarketIds) > 0) ~> PaidOut(u)

\* C8: the cost charged by an applied trade is at most the budget submitted.
C8_CostWithinBudget == resp.applied => resp.cost <= resp.amount

\* C9: total_volume of a market never decreases, whether by a trade or by a
\* lifecycle pass, and a new market starts at its seeding cost, which is >= 0.
C9_VolumeMonotonic ==
  [][/\ \A id \in DOMAIN markets :
          /\ id \in DOMAIN markets'
          /\ markets'[id].total_volume >= markets[id].total_volume
     /\ \A id \in DOMAIN markets' \ DOMAIN markets :
          /\ markets'[id].total_volume = SeedOf(id)'.initial_volume
          /\ markets'[id].total_volume >= 0]_vars

\* A lifecycle pass closed or settled a market that had taken trades.
C9_Witness ==
  \E id \in DOMAIN markets :
    /\ ledger[id].cost > 0
    /\ markets[id].status # "open"
    /\ markets[id].total_volume > SeedOf(id).initial_volume

C11_PassIdempotent ==
  \A game \in Fixtures :
    LET once == create_markets_from_games(markets, <<game>>, now)
    IN create_markets_from_games(once, <<game>>, now) = once

\* The first market has taken trades and a pass would change its row, and
\* the second market is still to be created.
C11_Witness ==
  /\ MarketIdOf("g1") \in DOMAIN markets
  /\ ledger[MarketIdOf("g1")].cost > 0
  /\ MarketIdOf("g2") \notin DOMAIN markets
  /\ \E game \in FixturesOf("g1") :
       create_markets_from_games(markets, <<game>>, now) # markets

\* The kick-off of the fixture is known and is not after instant t.
StartPassed(game, t) ==
  LET parsed == ParseGameDatetime(game.time, game.date)
  IN parsed[1] /\ t >= parsed[2]

\* C12: a pass over an open market whose fixture has no final score and whose
\* kick-off has passed stores it as closed; a trade on a market stored as
\* closed fails with "market not open"; and a closed market is not opened
\* again, so that every trade after the closing pass fails.
C12_ClosedAtStart ==
  [][/\ \A game \in Fixtures :
          LET id == MarketIdOf(game.game_id)
          IN (/\ id \in DOMAIN markets
              /\ markets[id].status = "open"
              /\ game.status \notin {"completed", "forfeit"}
              /\ StartPassed(game, now)
              /\ markets' = create_markets_from_games(markets, <<game>>, now))
             => markets'[id].status = "closed"
     /\ \A r \in Reqs :
          (/\ TradeStepOf(r)
           /\ resp'.market_id \in DOMAIN markets
           /\ markets[resp'.market_id].status = "closed")
          => resp'.result = "Market not open"
     /\ \A id \in DOMAIN markets :
          markets[id].status = "closed" => markets'[id].status # "open"]_vars

\* The errors execute_trade may return to a user for a market that exists.
TradeErrors ==
  {"Market not open", "Invalid outcome", "Amount must be positive",
   "Insufficient balance", "Amount too small"}

\* C13: a trade by a user on a market that exists returns success, with a
\* positive number of shares bought, or one of the five trade errors; and a
\* trade that passed every check and resolved a positive number of shares
\* returns success.
C13_SuccessOrTradeError ==
  (TradeReturned /\ resp.user # NoUser /\ resp.market_id \in DOMAIN markets) =>
    /\ resp.result \in TradeErrors \cup {"Success"}
    /\ resp.result = "Success" => resp.shares > 0
    /\ resp.applied => resp.result = "Success"

\* C14: a trade request of a user with an outcome other than home and away,
\* or with an amount that is not positive, gets the validation error for it,
\* whether or not the market exists and whatever its status.
C14_ValidatedBeforeRead ==
  (TradeReturned /\ resp.user # NoUser) =>
    /\ resp.outcome \notin {"home", "away"} => resp.result = "Invalid outcome"
    /\ (resp.outcome \in {"home", "away"} /\ resp.amount <= 0) =>
         resp.result = "Amount must be positive"

\* C15: no stored balance is ever negative, and a trade of a user with an
\* amount above the balance of the user row the request read changes neither
\* balance nor market nor position; it is refused with "insufficient
\* balance" when the market is open and the outcome is home or away.
C15_BalanceFloor ==
  [][/\ \A u \in Users : balance'[u] >= 0
     /\ \A r \in Reqs :
          (TradeStepOf(r) /\ resp'.amount > req[r].balance) =>
            /\ ~resp'.applied
            /\ balance' = balance /\ markets' = markets /\ positions' = positions
            /\ (/\ resp'.market_id \in DOMAIN markets
                /\ markets[resp'.market_id].status = "open"
                /\ resp'.outcome \in {"home", "away"})
               => resp'.result = "Insufficient balance"]_vars

\* A user whose whole balance went into a trade that cost more than the
\* balance, leaving it at the floor, was refused the next trade.
C15_Witness ==
  /\ resp.result = "Insufficient balance"
  /\ resp.user # NoUser
  /\ balance[resp.user] = 0
  /\ debited[resp.user] > STARTING_BALANCE

\* C16: a market has a winner only while it is settled: every market stored
\* as open or closed has no winner.
C16_WinnerOnlyWhenSettled ==
  \A id \in DOMAIN markets :
    /\ markets[id].winner \in {"home", "away", "None"}
    /\ markets[id].winner # "None" => markets[id].status = "settled"

\* One market is settled with a winner and has trades on it, while the other
\* is closed.
C16_Witness ==
  /\ DOMAIN markets = MarketIds
  /\ markets[MarketIdOf("g1")].status = "settled"
  /\ markets[MarketIdOf("g1")].winner \in {"home", "away"}
  /\ ledger[MarketIdOf("g1")].cost > 0
  /\ markets[MarketIdOf("g2")].status = "closed"

\* C17: the shares resolved by the solver for an applied trade cost the
\* submitted amount to within the tolerance of 0.01 token.
C17_CostMatchesBudget ==
  resp.applied => Abs(resp.cost - resp.amount) <= Tolerance

\* The cost of the shares the solver resolves for amount on outcome of market.
SolvedCost(market, outcome, amount) ==
  LET current == IF outcome = "home" THEN market.home_shares ELSE market.away_shares
      other   == IF outcome = "home" THEN market.away_shares ELSE market.home_shares
  IN calculate_cost(current, current + SolveShares(amount, current, other), other)

\* C18: when the bisection of a trade ends at its iteration cap, with no
\* midpoint whose cost came within the tolerance of the amount, the trade
\* fails with "amount too small" and changes neither balance nor market nor
\* position.
C18_CapMeansTooSmall ==
  [][\A r \in Reqs :
       (/\ TradeStepOf(r)
        /\ resp'.result \in {"Amount too small", "Success", "Internal Server Error"}
        /\ Abs(SolvedCost(markets[resp'.market_id], resp'.outcome, resp'.amount)
               - resp'.amount) >= Tolerance)
       => /\ resp'.result = "Amount too small"
          /\ balance' = balance /\ markets' = markets /\ positions' = positions]_vars

\* C19: a step that is not a trade on a market, a lifecycle pass above all,
\* changes of its stored row at most status, winner, scores and prices: the
\* share totals, the volume and the ratings stay those left by the trades
\* applied so far, and the prices stay those of the unchanged share totals.
C19_PassKeepsTotals ==
  [][\A id \in DOMAIN markets :
       ~(resp'.applied /\ resp'.market_id = id) =>
         /\ id \in DOMAIN markets'
         /\ [markets'[id] EXCEPT !.status = markets[id].status,
                                 !.winner = markets[id].winner,
                                 !.home_score = markets[id].home_score,
                                 !.away_score = markets[id].away_score]
              = markets[id]
         /\ \A seed \in {SeedOf(id)} :
              /\ markets'[id].home_shares = seed.home_shares + ledger'[id].home
              /\ markets'[id].away_shares = seed.away_shares + ledger'[id].away
              /\ markets'[id].total_volume = seed.initial_volume + ledger'[id].cost]_vars

\* A pass settled a market on which a trade had been applied while another
\* trade request, still waiting, was in flight.
C19_Witness ==
  \E id \in DOMAIN markets, r \in Reqs :
    /\ ledger[id].cost > 0
    /\ markets[id].status = "settled"
    /\ req[r].pc = "authed"
    /\ id \in req[r].saw

\* The stored position of a user in a market, all zero when there is none.
StoredPosition(table, user_id, market_id) ==
  IF <<user_id, market_id>> \in DOMAIN table
  THEN table[<<user_id, market_id>>]
  ELSE [home_shares |-> 0, away_shares |-> 0,
        avg_home_price |-> 0, avg_away_price |-> 0]

\* C20: an applied trade of shares on one side for a cost adds the shares to
\* that side of the user's position, sets that side's average price to
\* (old average * old shares + cost) / new shares, leaves the other side's
\* shares and average price as they were (0 for a first trade), and touches
\* no other position.
C20_PositionUpdate ==
  [][resp'.applied =>
       LET old == StoredPosition(positions, resp'.user, resp'.market_id)
           new == StoredPosition(positions', resp'.user, resp'.market_id)
       IN /\ <<resp'.user, resp'.market_id>> \in DOMAIN positions'
          /\ \A k \in DOMAIN positions :
               k # <<resp'.user, resp'.market_id>> =>
                 (k \in DOMAIN positions' /\ positions'[k] = positions[k])
          /\ resp'.outcome = "home" =>
               /\ new.home_shares = old.home_shares + resp'.shares
               /\ new.avg_home_price =
                    PricePerShare(CostOf(old.avg_home_price, old.home_shares)
                                  + resp'.cost, new.home_shares)
               /\ new.away_shares = old.away_shares
               /\ new.avg_away_price = old.avg_away_price
          /\ resp'.outcome = "away" =>
               /\ new.away_shares = old.away_shares + resp'.shares
               /\ new.avg_away_price =
                    PricePerShare(CostOf(old.avg_away_price, old.away_shares)
                                  + resp'.cost, new.away_shares)
               /\ new.home_shares = old.home_shares
               /\ new.avg_home_price = old.avg_home_price]_vars

\* A user bought more of a side already held.
C20_Witness ==
  /\ resp.applied
  /\ LET p == StoredPosition(positions, resp.user, resp.market_id)
     IN \/ resp.outcome = "home" /\ p.home_shares > resp.shares
        \/ resp.outcome = "away" /\ p.away_shares > resp.shares

\* C21: a position that holds shares is there in every later state with at
\* least the shares it had on each side, and no stored share count is
\* negative; this covers trades of one user on one market whose requests
\* overlap.
C21_PositionsOnlyGrow ==
  [][/\ \A k \in DOMAIN positions :
          (positions[k].home_shares > 0 \/ positions[k].away_shares > 0) =>
            /\ k \in DOMAIN positions'
            /\ positions'[k].home_shares >= positions[k].home_shares
            /\ positions'[k].away_shares >= positions[k].away_shares
     /\ \A k \in DOMAIN positions' :
          positions'[k].home_shares >= 0 /\ positions'[k].away_shares >= 0]_vars

\* Two requests of one user were in flight together and both bought the same
\* side of the same market.
C21_Witness ==
  /\ resp.applied
  /\ resp.overlapped
  /\ ledger[resp.market_id].cost = debited[resp.user]
  /\ LET p == StoredPosition(positions, resp.user, resp.market_id)
     IN \/ resp.outcome = "home" /\ p.home_shares > resp.shares
        \/ resp.outcome = "away" /\ p.away_shares > resp.shares

\* C22: a market is created with 0 shares on the side of the team that is
\* not rated higher and at least 0 on the other, with a home price above the
\* away price exactly when the home rating is above the away rating, with the
\* cost of the seed as its volume, and with 0/0 shares at 50/50 when the two
\* ratings are equal (two unknown teams among them).  No trade is placed
\* under SeedSpec, so every stored market is as it was created.
C22_SeededByRating ==
  \A id \in DOMAIN markets :
    LET m == markets[id]
    IN /\ m.home_shares >= 0 /\ m.away_shares >= 0
       /\ (m.home_elo >= m.away_elo) => m.away_shares = 0
       /\ (m.home_elo <= m.away_elo) => m.home_shares = 0
       /\ (m.home_price > m.away_price) <=> (m.home_elo > m.away_elo)
       /\ (m.home_price < m.away_price) <=> (m.home_elo < m.away_elo)
       /\ m.total_volume =
            calculate_cost(0, Max(m.home_shares, m.away_shares), 0)
       /\ (m.home_elo = m.away_elo) =>
            /\ m.home_price = 50 * SCALE
            /\ m.away_price = 50 * SCALE

\* Markets of all three kinds were created: home favoured, away favoured by
\* one point, and two unknown teams.
C22_Witness ==
  /\ {MarketIdOf("s1"), MarketIdOf("s4"), MarketIdOf("s6")} \subseteq DOMAIN markets
  /\ markets[MarketIdOf("s1")].home_shares > 0
  /\ markets[MarketIdOf("s6")].away_shares > 0
  /\ markets[MarketIdOf("s6")].total_volume > 0
  /\ markets[MarketIdOf("s4")].total_volume = 0

\* C23: an applied purchase never lowers the stored price of the side bought
\* and never raises the stored price of the other side, and from a 50/50
\* market it leaves the side bought above 50 and the other side below 50,
\* whatever the share totals of the market are.
C23_PriceFollowsPurchase ==
  [][resp'.applied =>
       LET old == markets[resp'.market_id]
           new == markets'[resp'.market_id]
       IN /\ resp'.outcome = "home" =>
               /\ new.home_price >= old.home_price
               /\ new.away_price <= old.away_price
               /\ (old.home_price = 50 * SCALE /\ old.away_price = 50 * SCALE) =>
                    (new.home_price > 50 * SCALE /\ 50 * SCALE > new.away_price)
          /\ resp'.outcome = "away" =>
               /\ new.away_price >= old.away_price
               /\ new.home_price <= old.home_price
               /\ (old.home_price = 50 * SCALE /\ old.away_price = 50 * SCALE) =>
                    (new.away_price > 50 * SCALE /\ 50 * SCALE > new.home_price)]_vars

\* Quantities of shares the solver of execute_trade prices for budgets up to
\* a starting balance: its first midpoint is five times the budget.
Deltas == {SCALE, 50 * SCALE, 1000 * SCALE, 10000 * SCALE, 50000 * SCALE}

\* C24: on every side of every market, the sell value of a quantity just
\* bought is at most what it cost, and a larger quantity never costs less
\* than a smaller one from the same totals.
C24_NoFreeMoney ==
  \A id \in DOMAIN markets :
    \A side \in {"home", "away"} :
      LET current == IF side = "home" THEN markets[id].home_shares
                     ELSE markets[id].away_shares
          other   == IF side = "home" THEN markets[id].away_shares
                     ELSE markets[id].home_shares
      IN \A d1 \in Deltas :
           /\ calculate_sell_value(d1, current + d1, other)
                <= calculate_cost(current, current + d1, other)
           /\ \A d2 \in Deltas :
                d1 <= d2 => calculate_cost(current, current + d1, other)
                              <= calculate_cost(current, current + d2, other)

\* The entries of a game log that load_games keeps.
IsGame(g) == ParseScore(g.score)[1] /\ ParseDate(g.date)[1]

\* The orders a log of n entries can be written in.
Orders(n) == {p \in [1..n -> 1..n] : \A i, j \in 1..n : i # j => p[i] # p[j]}

\* The log with entry p[i] written at place i.
Reordered(raw, p) == [i \in 1..Len(raw) |-> raw[p[i]]]

\* Games of the same date come in the reordered log as they came in raw.
KeepsSameDateOrder(raw, p) ==
  \A a, b \in 1..Len(raw) :
    (/\ a < b
     /\ IsGame(raw[p[a]]) /\ IsGame(raw[p[b]])
     /\ ParseDate(raw[p[a]].date)[2] = ParseDate(raw[p[b]].date)[2])
    => p[a] < p[b]

\* What a whole run of the engine on a log returns.
RunOn(raw) ==
  LET st == compute_elo(NoRatings, load_games(raw))
  IN [elo |-> st.elo, history |-> st.history, record |-> st.record]

\* C25: a finished run has processed the games in non-decreasing date order;
\* its ratings, history and records are those of a run on the same log
\* written in any other order that keeps games of one date in their order,
\* and those of a run on the log without the entries whose score or date
\* does not parse.
C25_DateOrder ==
  engine.pc = "done" =>
    LET result == [elo |-> engine.elo, history |-> engine.history,
                   record |-> engine.record]
    IN /\ \A i, j \in DOMAIN engine.history :
            i < j => ParseDate(engine.history[i].date)[2]
                       <= ParseDate(engine.history[j].date)[2]
       /\ \A p \in Orders(Len(games_data)) :
            KeepsSameDateOrder(games_data, p) =>
              RunOn(Reordered(games_data, p)) = result
       /\ RunOn(SelectSeq(games_data, IsGame)) = result
       /\ Len(engine.history) = Len(SelectSeq(games_data, IsGame))

\* A run finished on a log that had a later game before an earlier one and
\* an entry that was skipped.
C25_Witness ==
  /\ engine.pc = "done"
  /\ Len(games_data) = 3
  /\ Len(engine.history) = 2
  /\ \E i, j \in 1..3 :
       /\ i < j
       /\ IsGame(games_data[i]) /\ IsGame(games_data[j])
       /\ ParseDate(games_data[i].date)[2] > ParseDate(games_data[j].date)[2]
  /\ engine.elo # NoRatings.elo

\* The engine has just run an iteration of compute_elo, on game LastGame.
Computed == engine.pc = "computing" /\ engine.i > 0

LastGame == engine.games[engine.i]

SportsOf(d) == {key[1] : key \in DOMAIN d}

TeamsOf(d, sport) == {key[2] : key \in {k \in DOMAIN d : k[1] = sport}}

\* The sum of f[x] over the elements of S.
RECURSIVE SumOver(_, _)
SumOver(S, f) ==
  IF S = {} THEN 0
  ELSE LET x == CHOOSE y \in S : TRUE
       IN f[x] + SumOver(S \ {x}, f)

\* The ratings of a sport, as gains over the starting rating: these sum in
\* 32 bits, which the ratings themselves do not.
GainsOf(elo, sport) ==
  [team \in TeamsOf(elo, sport) |-> elo[<<sport, team>>] - BASE_ELO * MICRO]

C28_TokensConserved ==
  \A u \in Users : balance[u] = STARTING_BALANCE - debited[u]

\* The three parts of C29 that concern one market: its share totals are the
\* seed plus the shares of all users' positions in it, and its volume is the
\* seeding cost plus the costs of the trades applied on it.
SharesConserved(id) ==
  /\ markets[id].home_shares =
       SeedOf(id).home_shares
       + SumOver(Users, [u \in Users |-> StoredPosition(positions, u, id).home_shares])
  /\ markets[id].away_shares =
       SeedOf(id).away_shares
       + SumOver(Users, [u \in Users |-> StoredPosition(positions, u, id).away_shares])
  /\ markets[id].total_volume = SeedOf(id).initial_volume + ledger[id].cost

\* C29: every market's home and away totals are its seed plus the sum of the
\* users' positions in it, its volume is its seeding cost plus the costs of
\* the trades on it, and those costs are what was debited from the users:
\* together the balances have gone down by the sum of them.
C29_SharesConserved ==
  /\ \A id \in DOMAIN markets : SharesConserved(id)
  /\ SumOver(Users, [u \in Users |-> STARTING_BALANCE - balance[u]])
       = SumOver(MarketIds, [id \in MarketIds |-> ledger[id].cost])

====
